---- MODULE Spec2Model ----
(***************************************************************************)
(* Real-time synchronization core of the collaborative code editor:        *)
(* the Socket.io gateway (join-session, yjs-update, yjs-awareness,         *)
(* request-sync, send-message handlers), the Redis pub/sub fanout, the     *)
(* durable CodeSession record, and the client-side SocketIOProvider.       *)
(*                                                                         *)
(* A Y.Doc is abstracted to the set of struct (item) ids it has            *)
(* integrated plus its delete set; a binary update is a byte sequence      *)
(*   <<n, id_1 .. id_n, m, del_1 .. del_m>>                                *)
(* so that the gateway's byte-level checks (length, all-zero) and a        *)
(* failing Y.applyUpdate act on bytes as they do in the code.              *)
(***************************************************************************)
EXTENDS Integers, Sequences, FiniteSets, TLC

\* Number of events from outside the gateway (a client's join, update,
\* awareness, request-sync, chat message, leave or disconnect; a message of
\* another publisher; the loss of the Redis server) in one behaviour.
MaxOps == 2

Procs == {"p1", "p2"}
Clients == {"c1", "c2"}
\* Session ids that have a CodeSession row; "X" has none.
Existing == {"A", "B"}
SessionIds == Existing \cup {"X"}
NoConn == "none"

VARIABLES
  live,                 \* server processes that are running
  conn,                 \* conn[c]: process the client's socket is connected to, or NoConn
  session,              \* session[c]: the sessionId the client's provider was built with
  cdoc,                 \* cdoc[c]: the provider's Y.Doc
  inbox,                \* inbox[c]: server->client events in flight, in order
  rooms,                \* rooms[p][s]: sockets in the Socket.io room s of process p
  yjsDocs,              \* yjsDocs[p]: Map sessionId -> Y.Doc
  sessionParticipants,  \* sessionParticipants[p]: Map sessionId -> Set userId
  codeSession,          \* durable CodeSession rows: yjsState and lastSnapshot
  participant,          \* durable Participant rows (sessionId, userId) with leftAt
  bus,                  \* bus[p]: Redis messages not yet handed to p's subscriber
  tasks,                \* handlers suspended at an await
  log,                  \* what the handlers' error paths wrote to the console
  chatMessage,          \* durable ChatMessage rows, in the order they were created
  redisClosed,          \* processes whose Redis clients gave up reconnecting
  destroyed,            \* clients whose provider's destroy() was called
  sentInRoom,           \* history: items whose update was sent by a socket that was in
                        \* the room of the session it named
  ops                   \* events from outside the gateway so far

vars == <<live, conn, session, cdoc, inbox, rooms, yjsDocs, sessionParticipants,
          codeSession, participant, bus, tasks, log, chatMessage, redisClosed,
          destroyed, sentInRoom, ops>>

-----------------------------------------------------------------------------
(* Y.Doc and the update encoding *)

EmptyDoc == [items |-> {}, deleted |-> {}]

Min(S) == CHOOSE x \in S : \A y \in S : x <= y

RECURSIVE SortedSeq(_)
SortedSeq(S) == IF S = {} THEN <<>>
                ELSE LET m == Min(S) IN <<m>> \o SortedSeq(S \ {m})

Range(q) == {q[i] : i \in DOMAIN q}

\* An encoder that leaves every struct out.
EncodeEmptyUpdate(doc) == <<0, 0>>

\* Y.encodeStateAsUpdate(doc): every struct and the delete set.
EncodeStateAsUpdate(doc) ==
  <<Cardinality(doc.items)>> \o SortedSeq(doc.items)
    \o <<Cardinality(doc.deleted)>> \o SortedSeq(doc.deleted)

\* The update a client's local insert of item i produces (doc.on('update')).
ItemUpdate(i) == <<1, i, 0>>

\* Whether decoding the bytes runs off the end of the buffer or meets a
\* struct without an id: Y.applyUpdate throws.
Throws(b) ==
  \/ Len(b) = 0
  \/ Len(b) < b[1] + 2
  \/ \E k \in 2..(b[1] + 1) : b[k] = 0
  \/ Len(b) < b[1] + 2 + b[b[1] + 2]

DecodedItems(b) == {b[k] : k \in 2..(b[1] + 1)}
DecodedDeleted(b) == {b[k] : k \in (b[1] + 3)..(b[1] + 2 + b[b[1] + 2])}

\* A merge that has not come to integrate anything when the call returns.
ApplyUpdateNothingYet(doc, b) == doc

\* Y.applyUpdate(doc, b) for bytes that decode: idempotent, commutative merge.
ApplyUpdate(doc, b) ==
  [items |-> doc.items \cup DecodedItems(b),
   deleted |-> doc.deleted \cup DecodedDeleted(b)]

\* The character an item carries. Items a client inserts have ids below 100;
\* the item that the document with clientID g creates for the character ch
\* at place k of a text snapshot it inserts has id 1000 * g + 100 * k + ch:
\* a struct of its own with the same content, in the snapshot's order.
CharOf(i) == i % 100
SnapshotItem(g, k, ch) == 1000 * g + 100 * k + ch

\* ydoc.getText('monaco').toString(): the visible items in document order.
TextOf(doc) ==
  LET ids == SortedSeq(doc.items \ doc.deleted)
  IN [k \in DOMAIN ids |-> CharOf(ids[k])]

\* yText.insert(0, text) on the server's document, whose clientID is g.
InsertText(doc, g, text) ==
  [doc EXCEPT !.items = @ \cup {SnapshotItem(g, k, text[k]) : k \in DOMAIN text}]

\* A test that looks at the text alone.
HasText(doc) == Len(TextOf(doc)) > 0

\* yText.length > 0 || ydoc.store.clients.size > 0
HasContent(doc) == Len(TextOf(doc)) > 0 \/ doc.items # {}

\* Array.from(update).some(byte => byte !== 0)
SomeNonZero(b) == \E k \in DOMAIN b : b[k] # 0

\* new Uint8Array(array): every element is reduced to one byte.
ToUint8Array(a) == [k \in DOMAIN a |-> a[k] % 256]

-----------------------------------------------------------------------------
(* Events, bus messages and suspended handlers *)

\* A server->client event. via, origin and sid record where the gateway
\* emitted it, whose handler the payload came from and which session's data
\* it carries; no handler reads them.
Event(type, data, user, via, origin, sid) ==
  [type |-> type, data |-> data, user |-> user, via |-> via,
   origin |-> origin, sid |-> sid]

\* A message on channel yjs:<sessionId>. json tells whether JSON.parse takes
\* the text; type is the parsed object's type ("absent" when it has none);
\* form is what its data field is ("array", "number" or "absent") and data
\* holds the array's elements, or the number.
BusText(s, json, type, form, data, origin) ==
  [channel |-> s, json |-> json, type |-> type, form |-> form, data |-> data,
   origin |-> origin]

\* JSON.stringify({type, data: Array.from(update)}) on channel yjs:<sessionId>.
BusMessage(s, type, data, origin) == BusText(s, TRUE, type, "array", data, origin)

\* A handler invocation suspended at an await. id tells apart invocations
\* that are alike in everything else; seq is the place of its publish among
\* the commands sent on the process's Redis connection.
TaskWith(id, kind, c, p, s, pc, data, hadDoc) ==
  [id |-> id, kind |-> kind, c |-> c, p |-> p, s |-> s, pc |-> pc,
   data |-> data, hadDoc |-> hadDoc, dead |-> FALSE, found |-> FALSE,
   seq |-> IF pc = "publish" THEN ops + 1 ELSE 0,
   yjsState |-> <<>>, lastSnapshot |-> <<>>]

Task(kind, c, p, s, pc, data, hadDoc) ==
  TaskWith(Min({n \in 0..MaxOps :
                 \A t \in tasks : t.id = n => ~(t.kind = kind /\ t.c = c)}),
           kind, c, p, s, pc, data, hadDoc)

\* The first item id of the client's own range (its Y.Doc clientID).
ClientBase(c) == IF c = "c1" THEN 10 ELSE 20

\* The next item a local edit of client c creates.
FreshItem(c) ==
  ClientBase(c) + 1
    + Cardinality({i \in cdoc[c].items : i > ClientBase(c) /\ i < ClientBase(c) + 10})

\* Malformed yjs-update payloads a client may send: zero-length, all-zero
\* (it decodes to the empty update), and a buffer that is cut short.
BadUpdates == {<<>>, <<0, 0>>, <<1>>}

\* socket.to(room).emit / io.to(room).emit: append ev to the inbox of every
\* socket in the set.
EmitTo(box, targets, ev) ==
  [d \in Clients |-> IF d \in targets THEN Append(box[d], ev) ELSE box[d]]

Has(map, key) == key \in DOMAIN map

\* No event is in flight to a client. A client handles an event as soon as it
\* arrives: handling it changes the client's own document only, so taking it
\* before the next server step loses no server behaviour.
Drained == \A c \in Clients : inbox[c] = <<>>

\* Map.set(key, value)
MapSet(map, key, value) ==
  [k \in DOMAIN map \cup {key} |-> IF k = key THEN value ELSE map[k]]

-----------------------------------------------------------------------------
\* The state after the servers started and the clients connected and built
\* their providers (whose first requestSync finds no document). Client c1
\* stands for the first client: it is at p1 with a provider for session A.
InitWith(running) ==
  /\ live = running
  /\ conn \in {f \in [Clients -> running] : f["c1"] = "p1"}
  /\ session \in {f \in [Clients -> Existing] : f["c1"] = "A"}
  /\ cdoc = [c \in Clients |-> EmptyDoc]
  /\ inbox = [c \in Clients |-> <<>>]
  /\ rooms = [p \in Procs |-> [s \in SessionIds |-> {}]]
  /\ yjsDocs = [p \in Procs |-> <<>>]
  /\ sessionParticipants = [p \in Procs |-> <<>>]
  /\ codeSession = [s \in Existing |-> [yjsState |-> <<>>, lastSnapshot |-> <<>>]]
  /\ participant = {}
  /\ bus = [p \in Procs |-> <<>>]
  /\ tasks = {}
  /\ log = {}
  /\ chatMessage = <<>>
  /\ redisClosed = {}
  /\ destroyed = {}
  /\ sentInRoom = {}
  /\ ops = 0

Init == InitWith(Procs)

\* The state the gateway is in after every client's join-session has run to
\* its end, before the first edit: c1 joined session A, c2 joined session
\* joined["c2"], and every handler has returned and every event was taken.
InitJoinedWith(running) ==
  /\ live = running
  /\ conn \in {f \in [Clients -> running] : f["c1"] = "p1"}
  /\ session \in {f \in [Clients -> Existing] : f["c1"] = "A"}
  /\ cdoc = [c \in Clients |-> EmptyDoc]
  /\ inbox = [c \in Clients |-> <<>>]
  /\ \E joined \in {f \in [Clients -> Existing] : f["c1"] = "A"} :
       /\ rooms = [p \in Procs |-> [s \in SessionIds |->
                     {c \in Clients : conn[c] = p /\ joined[c] = s}]]
       /\ yjsDocs = [p \in Procs |->
                     [s \in {joined[c] : c \in {d \in Clients : conn[d] = p}} |->
                        EmptyDoc]]
       /\ sessionParticipants = [p \in Procs |->
                     [s \in {joined[c] : c \in {d \in Clients : conn[d] = p}} |->
                        {c \in Clients : conn[c] = p /\ joined[c] = s}]]
       /\ participant = {[sessionId |-> joined[c], userId |-> c, leftAt |-> "null"] :
                           c \in Clients}
  /\ codeSession = [s \in Existing |-> [yjsState |-> <<>>, lastSnapshot |-> <<>>]]
  /\ bus = [p \in Procs |-> <<>>]
  /\ tasks = {}
  /\ log = {}
  /\ chatMessage = <<>>
  /\ redisClosed = {}
  /\ destroyed = {}
  /\ sentInRoom = {}
  /\ ops = 0

InitJoined == InitJoinedWith(Procs)

\* CodeSession rows a starting gateway may find: never saved; saved by an
\* earlier run (two inserts, the first deleted again; one insert, deleted
\* again, which leaves the text empty); the binary snapshot of a saved row
\* cut short, with and without its text snapshot.
StoredRows ==
  {[yjsState |-> <<>>, lastSnapshot |-> <<>>],
   [yjsState |-> <<2, 11, 12, 1, 11>>, lastSnapshot |-> <<12>>],
   [yjsState |-> <<1, 11, 1, 11>>, lastSnapshot |-> <<>>],
   [yjsState |-> <<2, 12>>, lastSnapshot |-> <<12, 12>>],
   [yjsState |-> <<0>>, lastSnapshot |-> <<>>]}

\* The state after a restart: as Init, with what the store kept of session A.
InitStored ==
  /\ live = Procs
  /\ conn \in {f \in [Clients -> Procs] : f["c1"] = "p1"}
  /\ session = [c \in Clients |-> "A"]
  /\ cdoc = [c \in Clients |-> EmptyDoc]
  /\ inbox = [c \in Clients |-> <<>>]
  /\ rooms = [p \in Procs |-> [s \in SessionIds |-> {}]]
  /\ yjsDocs = [p \in Procs |-> <<>>]
  /\ sessionParticipants = [p \in Procs |-> <<>>]
  /\ \E row \in StoredRows :
       codeSession = [s \in Existing |->
                        IF s = "A" THEN row
                        ELSE [yjsState |-> <<>>, lastSnapshot |-> <<>>]]
  /\ participant = {}
  /\ bus = [p \in Procs |-> <<>>]
  /\ tasks = {}
  /\ log = {}
  /\ chatMessage = <<>>
  /\ redisClosed = {}
  /\ destroyed = {}
  /\ sentInRoom = {}
  /\ ops = 0

InitSingle == InitJoinedWith({"p1"})

-----------------------------------------------------------------------------
(* Gateway: join-session *)

\* Client c emits join-session(s, userId, userName); the handler starts and
\* suspends at prisma.codeSession.findUnique.
JoinSession(c, s) ==
  /\ Drained
  /\ ops < MaxOps
  /\ conn[c] # NoConn
  /\ tasks' = tasks \cup {Task("join", c, conn[c], s, "find", <<>>, FALSE)}
  /\ ops' = ops + 1
  /\ UNCHANGED <<destroyed, chatMessage, redisClosed, live, conn, session, cdoc, inbox, rooms, yjsDocs,
                 sessionParticipants, codeSession, participant, bus, sentInRoom, log>>

\* The store answers findUnique with the row as it is now, or null.
FindUnique(t) ==
  /\ Drained
  /\ t \in tasks /\ t.kind = "join" /\ t.pc = "find"
  /\ tasks' = (tasks \ {t}) \cup
       {IF Has(codeSession, t.s)
        THEN [t EXCEPT !.pc = "found", !.found = TRUE,
                       !.yjsState = codeSession[t.s].yjsState,
                       !.lastSnapshot = codeSession[t.s].lastSnapshot]
        ELSE [t EXCEPT !.pc = "found", !.found = FALSE]}
  /\ UNCHANGED <<destroyed, chatMessage, redisClosed, live, conn, session, cdoc, inbox, rooms, yjsDocs,
                 sessionParticipants, codeSession, participant, bus, ops, sentInRoom, log>>

\* findUnique rejects (the store is out of reach): the handler's catch logs
\* the error and emits 'unauthorized'; the socket has joined nothing.
FindUniqueFails(t) ==
  /\ Drained
  /\ t \in tasks /\ t.kind = "join" /\ t.pc = "find"
  /\ inbox' = EmitTo(inbox, IF t.dead THEN {} ELSE {t.c},
                     Event("unauthorized", <<>>, t.c, "join", t.c, t.s))
  /\ log' = log \cup
       {[msg |-> "Error joining session", c |-> t.c, s |-> t.s, data |-> <<>>]}
  /\ tasks' = tasks \ {t}
  /\ UNCHANGED <<destroyed, chatMessage, redisClosed, live, conn, session, cdoc, rooms, yjsDocs,
                 sessionParticipants, codeSession, participant, bus, ops, sentInRoom>>

\* The clientID of the Y.Doc a process creates: new Y.Doc() draws it at
\* random, so the documents of two processes differ in it, and both differ
\* from the document an earlier run of the gateway created.
DocClientID(p) == IF p = "p1" THEN 1 ELSE 2
EarlierClientID == 3

\* A loader that gives up on a binary snapshot that fails to apply.
LoadDocNoFallback(g, yjsState, lastSnapshot) ==
  IF Len(yjsState) > 0 /\ ~Throws(ToUint8Array(yjsState))
  THEN ApplyUpdate(EmptyDoc, ToUint8Array(yjsState))
  ELSE EmptyDoc

\* new Y.Doc() filled from the row that findUnique returned; g is the
\* clientID the new document drew.
LoadDoc(g, yjsState, lastSnapshot) ==
  IF Len(yjsState) > 0
  THEN IF Throws(ToUint8Array(yjsState))
       THEN IF Len(lastSnapshot) > 0
            THEN InsertText(EmptyDoc, g, lastSnapshot)
            ELSE EmptyDoc
       ELSE ApplyUpdate(EmptyDoc, ToUint8Array(yjsState))
  ELSE IF Len(lastSnapshot) > 0
       THEN InsertText(EmptyDoc, g, lastSnapshot)
       ELSE EmptyDoc

\* The state after a restart when client c1 still holds the document it was
\* served before the restart: the document the earlier run had loaded from
\* the row of session A.
InitRestarted ==
  /\ live = Procs
  /\ conn \in {f \in [Clients -> Procs] : f["c1"] = "p1"}
  /\ session = [c \in Clients |-> "A"]
  /\ inbox = [c \in Clients |-> <<>>]
  /\ rooms = [p \in Procs |-> [s \in SessionIds |-> {}]]
  /\ yjsDocs = [p \in Procs |-> <<>>]
  /\ sessionParticipants = [p \in Procs |-> <<>>]
  /\ \E row \in StoredRows :
       /\ codeSession = [s \in Existing |->
                           IF s = "A" THEN row
                           ELSE [yjsState |-> <<>>, lastSnapshot |-> <<>>]]
       /\ cdoc = [c \in Clients |->
                    IF c = "c1"
                    THEN LoadDoc(EarlierClientID, row.yjsState, row.lastSnapshot)
                    ELSE EmptyDoc]
  /\ participant = {}
  /\ bus = [p \in Procs |-> <<>>]
  /\ tasks = {}
  /\ log = {}
  /\ chatMessage = <<>>
  /\ redisClosed = {}
  /\ destroyed = {}
  /\ sentInRoom = {}
  /\ ops = 0

\* A join or sync that never sends the document.
FullStateNeverSent(c, doc, alive) == {}

\* The full state the gateway sends to one socket, if any: the sockets that
\* get it (none when the document is empty or the socket is gone).
FullStateTargets(c, doc, alive) ==
  IF alive /\ HasContent(doc) /\ Len(EncodeStateAsUpdate(doc)) > 0
  THEN {c} ELSE {}

\* A handler that takes every session id for an existing session.
SessionMissingNever(t) == FALSE

\* if (!session)
SessionMissing(t) == ~t.found

\* A join handler that builds a new document from the row it read whether
\* or not the process holds one for the session.
JoinResumeFreshDoc(t) ==
  /\ Drained
  /\ t \in tasks /\ t.kind = "join" /\ t.pc = "found"
  /\ IF SessionMissing(t)
     THEN /\ inbox' = EmitTo(inbox, IF t.dead THEN {} ELSE {t.c},
                             Event("session-not-found", <<>>, t.c, "join", t.c, t.s))
          /\ tasks' = tasks \ {t}
          /\ UNCHANGED <<rooms, yjsDocs, sessionParticipants>>
     ELSE LET p == t.p
              s == t.s
              ydoc == LoadDoc(DocClientID(t.p), t.yjsState, t.lastSnapshot)
              users == IF Has(sessionParticipants[p], s)
                       THEN sessionParticipants[p][s] ELSE {}
              joined == IF t.dead THEN rooms[p][s] ELSE rooms[p][s] \cup {t.c}
              box1 == EmitTo(inbox, FullStateTargets(t.c, ydoc, ~t.dead),
                             Event("yjs-update", EncodeStateAsUpdate(ydoc), t.c,
                                   "join", "server", s))
          IN /\ rooms' = [rooms EXCEPT ![p][s] = joined]
             /\ sessionParticipants' =
                  [sessionParticipants EXCEPT ![p] = MapSet(@, s, users \cup {t.c})]
             /\ yjsDocs' = [yjsDocs EXCEPT ![p] = MapSet(@, s, ydoc)]
             /\ inbox' = EmitTo(box1, joined \ {t.c},
                                Event("user-joined", <<>>, t.c, "join", t.c, s))
             /\ tasks' = (tasks \ {t}) \cup {[t EXCEPT !.pc = "upsert"]}
  /\ UNCHANGED <<destroyed, chatMessage, redisClosed, live, conn, session, cdoc, codeSession, participant, bus, ops, sentInRoom, log>>

\* A join handler that announces the user to the whole room, the joining
\* socket included (io.to).
JoinResumeAnnounceToAll(t) ==
  /\ Drained
  /\ t \in tasks /\ t.kind = "join" /\ t.pc = "found"
  /\ IF SessionMissing(t)
     THEN /\ inbox' = EmitTo(inbox, IF t.dead THEN {} ELSE {t.c},
                             Event("session-not-found", <<>>, t.c, "join", t.c, t.s))
          /\ tasks' = tasks \ {t}
          /\ UNCHANGED <<rooms, yjsDocs, sessionParticipants>>
     ELSE LET p == t.p
              s == t.s
              ydoc == IF Has(yjsDocs[p], s) THEN yjsDocs[p][s]
                      ELSE LoadDoc(DocClientID(t.p), t.yjsState, t.lastSnapshot)
              users == IF Has(sessionParticipants[p], s)
                       THEN sessionParticipants[p][s] ELSE {}
              joined == IF t.dead THEN rooms[p][s] ELSE rooms[p][s] \cup {t.c}
              box1 == EmitTo(inbox, FullStateTargets(t.c, ydoc, ~t.dead),
                             Event("yjs-update", EncodeStateAsUpdate(ydoc), t.c,
                                   "join", "server", s))
          IN /\ rooms' = [rooms EXCEPT ![p][s] = joined]
             /\ sessionParticipants' =
                  [sessionParticipants EXCEPT ![p] = MapSet(@, s, users \cup {t.c})]
             /\ yjsDocs' = [yjsDocs EXCEPT ![p] = MapSet(@, s, ydoc)]
             /\ inbox' = EmitTo(box1, joined,
                                Event("user-joined", <<>>, t.c, "join", t.c, s))
             /\ tasks' = (tasks \ {t}) \cup {[t EXCEPT !.pc = "upsert"]}
  /\ UNCHANGED <<destroyed, chatMessage, redisClosed, live, conn, session, cdoc, codeSession, participant, bus, ops, sentInRoom, log>>

\* A join handler that sends the state it read from the store before it
\* joined the room, not the state of the document at the time it joins.
JoinResumeStaleState(t) ==
  /\ Drained
  /\ t \in tasks /\ t.kind = "join" /\ t.pc = "found"
  /\ IF SessionMissing(t)
     THEN /\ inbox' = EmitTo(inbox, IF t.dead THEN {} ELSE {t.c},
                             Event("session-not-found", <<>>, t.c, "join", t.c, t.s))
          /\ tasks' = tasks \ {t}
          /\ UNCHANGED <<rooms, yjsDocs, sessionParticipants>>
     ELSE LET p == t.p
              s == t.s
              ydoc == IF Has(yjsDocs[p], s) THEN yjsDocs[p][s]
                      ELSE LoadDoc(DocClientID(t.p), t.yjsState, t.lastSnapshot)
              users == IF Has(sessionParticipants[p], s)
                       THEN sessionParticipants[p][s] ELSE {}
              joined == IF t.dead THEN rooms[p][s] ELSE rooms[p][s] \cup {t.c}
              box1 == EmitTo(inbox, FullStateTargets(t.c, ydoc, ~t.dead),
                             Event("yjs-update",
                                   EncodeStateAsUpdate(LoadDoc(DocClientID(t.p), t.yjsState, t.lastSnapshot)),
                                   t.c,
                                   "join", "server", s))
          IN /\ rooms' = [rooms EXCEPT ![p][s] = joined]
             /\ sessionParticipants' =
                  [sessionParticipants EXCEPT ![p] = MapSet(@, s, users \cup {t.c})]
             /\ yjsDocs' = [yjsDocs EXCEPT ![p] = MapSet(@, s, ydoc)]
             /\ inbox' = EmitTo(box1, joined \ {t.c},
                                Event("user-joined", <<>>, t.c, "join", t.c, s))
             /\ tasks' = (tasks \ {t}) \cup {[t EXCEPT !.pc = "upsert"]}
  /\ UNCHANGED <<destroyed, chatMessage, redisClosed, live, conn, session, cdoc, codeSession, participant, bus, ops, sentInRoom, log>>

\* The handler resumes with findUnique's result and runs to its next await,
\* prisma.participant.upsert.
JoinResume(t) ==
  /\ Drained
  /\ t \in tasks /\ t.kind = "join" /\ t.pc = "found"
  /\ IF SessionMissing(t)
     THEN /\ inbox' = EmitTo(inbox, IF t.dead THEN {} ELSE {t.c},
                             Event("session-not-found", <<>>, t.c, "join", t.c, t.s))
          /\ tasks' = tasks \ {t}
          /\ UNCHANGED <<rooms, yjsDocs, sessionParticipants>>
     ELSE LET p == t.p
              s == t.s
              ydoc == IF Has(yjsDocs[p], s) THEN yjsDocs[p][s]
                      ELSE LoadDoc(DocClientID(t.p), t.yjsState, t.lastSnapshot)
              users == IF Has(sessionParticipants[p], s)
                       THEN sessionParticipants[p][s] ELSE {}
              joined == IF t.dead THEN rooms[p][s] ELSE rooms[p][s] \cup {t.c}
              box1 == EmitTo(inbox, FullStateTargets(t.c, ydoc, ~t.dead),
                             Event("yjs-update", EncodeStateAsUpdate(ydoc), t.c,
                                   "join", "server", s))
          IN /\ rooms' = [rooms EXCEPT ![p][s] = joined]
             /\ sessionParticipants' =
                  [sessionParticipants EXCEPT ![p] = MapSet(@, s, users \cup {t.c})]
             /\ yjsDocs' = [yjsDocs EXCEPT ![p] = MapSet(@, s, ydoc)]
             /\ inbox' = EmitTo(box1, joined \ {t.c},
                                Event("user-joined", <<>>, t.c, "join", t.c, s))
             /\ tasks' = (tasks \ {t}) \cup {[t EXCEPT !.pc = "upsert"]}
  /\ UNCHANGED <<destroyed, chatMessage, redisClosed, live, conn, session, cdoc, codeSession, participant, bus, ops, sentInRoom, log>>

\* The store performs the Participant upsert: a new row, or leftAt cleared.
Upsert(t) ==
  /\ Drained
  /\ t \in tasks /\ t.kind = "join" /\ t.pc = "upsert"
  /\ participant' =
       {r \in participant : ~(r.sessionId = t.s /\ r.userId = t.c)}
         \cup {[sessionId |-> t.s, userId |-> t.c, leftAt |-> "null"]}
  /\ tasks' = tasks \ {t}
  /\ UNCHANGED <<destroyed, chatMessage, redisClosed, live, conn, session, cdoc, inbox, rooms, yjsDocs,
                 sessionParticipants, codeSession, bus, ops, sentInRoom, log>>

\* prisma.participant.upsert rejects: the handler's catch logs the error
\* and emits 'unauthorized'. What the handler did before the upsert stays.
UpsertFails(t) ==
  /\ Drained
  /\ t \in tasks /\ t.kind = "join" /\ t.pc = "upsert"
  /\ inbox' = EmitTo(inbox, IF t.dead THEN {} ELSE {t.c},
                     Event("unauthorized", <<>>, t.c, "join", t.c, t.s))
  /\ log' = log \cup
       {[msg |-> "Error joining session", c |-> t.c, s |-> t.s, data |-> <<1>>]}
  /\ tasks' = tasks \ {t}
  /\ UNCHANGED <<destroyed, chatMessage, redisClosed, live, conn, session, cdoc, rooms, yjsDocs,
                 sessionParticipants, codeSession, participant, bus, ops, sentInRoom>>

-----------------------------------------------------------------------------
(* Gateway: yjs-update *)

\* A handler that broadcasts and publishes before it merges: a payload that
\* fails to merge is relayed all the same.
UpdateOutcomeRelayFirst(hadDoc, b) ==
  IF Len(b) = 0 THEN "skip" ELSE "relay"

\* How the yjs-update handler ends for payload b: "skip" at its length
\* check, "caught" when Y.applyUpdate throws into the handler's catch,
\* "relay" when it goes on to broadcast and publish.
UpdateOutcome(hadDoc, b) ==
  IF Len(b) = 0 THEN "skip"
  ELSE IF hadDoc /\ Throws(b) THEN "caught"
  ELSE "relay"

\* The sockets socket.to(sessionId).emit reaches: the room without the sender.
BroadcastTargets(p, s, c) == rooms[p][s] \ {c}

\* What the handler writes to the console.
UpdateLog(outcome, c, s, b) ==
  IF outcome = "skip"
  THEN {[msg |-> "Received empty yjs-update, skipping", c |-> c, s |-> s, data |-> b]}
  ELSE IF outcome = "caught"
  THEN {[msg |-> "Error handling yjs-update", c |-> c, s |-> s, data |-> b]}
  ELSE {}

\* The yjs-update handler for payload b from socket c naming session s, up
\* to its first await (redisClient.publish).
HandleUpdate(c, s, b) ==
  LET p == conn[c]
      hadDoc == Has(yjsDocs[p], s)
      outcome == UpdateOutcome(hadDoc, b)
  IN /\ log' = log \cup UpdateLog(outcome, c, s, b)
     /\ IF outcome = "relay"
        THEN /\ yjsDocs' = IF hadDoc /\ ~Throws(b)
                           THEN [yjsDocs EXCEPT ![p][s] = ApplyUpdate(@, b)]
                           ELSE yjsDocs
             /\ inbox' = EmitTo(inbox, BroadcastTargets(p, s, c),
                                Event("yjs-update", b, c, "room", c, s))
             /\ tasks' = tasks \cup
                  {Task("update", c, p, s, "publish", b, hadDoc)}
        ELSE UNCHANGED <<yjsDocs, inbox, tasks>>

\* A local edit: the provider's document gets a new item and its update
\* listener emits yjs-update(sessionId, update).
LocalEdit(c) ==
  /\ Drained
  /\ ops < MaxOps
  /\ conn[c] # NoConn
  /\ LET i == FreshItem(c)
     IN /\ cdoc' = [cdoc EXCEPT ![c].items = @ \cup {i}]
        /\ HandleUpdate(c, session[c], ItemUpdate(i))
        /\ sentInRoom' = IF c \in rooms[conn[c]][session[c]]
                         THEN sentInRoom \cup {i} ELSE sentInRoom
  /\ ops' = ops + 1
  /\ UNCHANGED <<destroyed, chatMessage, redisClosed, live, conn, session, rooms, sessionParticipants, codeSession,
                 participant, bus>>

\* A client emits yjs-update with a malformed payload.
BadUpdate(c, b) ==
  /\ Drained
  /\ ops < MaxOps
  /\ conn[c] # NoConn
  /\ b \in BadUpdates
  /\ HandleUpdate(c, session[c], b)
  /\ ops' = ops + 1
  /\ UNCHANGED <<destroyed, chatMessage, redisClosed, live, conn, session, cdoc, rooms, sessionParticipants,
                 codeSession, participant, bus, sentInRoom>>

\* A handler that answers a rejected publish by taking the socket out of
\* the room.
PublishFailsLeavesRoom(t) ==
  /\ Drained
  /\ t \in tasks /\ t.pc = "publish"
  /\ \A u \in tasks : u.pc = "publish" /\ u.p = t.p => t.seq <= u.seq
  /\ tasks' = tasks \ {t}
  /\ rooms' = [rooms EXCEPT ![t.p][t.s] = @ \ {t.c}]
  /\ UNCHANGED <<destroyed, chatMessage, redisClosed, live, conn, session, cdoc, inbox, yjsDocs, sessionParticipants,
                 codeSession, participant, bus, ops, sentInRoom, log>>

\* redisClient.publish rejects (the connection to Redis is closed): the
\* handler's catch logs the error and the handler ends, before any save.
PublishFails(t) ==
  /\ Drained
  /\ t \in tasks /\ t.pc = "publish"
  /\ \A u \in tasks : u.pc = "publish" /\ u.p = t.p => t.seq <= u.seq
  /\ tasks' = tasks \ {t}
  /\ log' = log \cup
       {[msg |-> IF t.kind = "update"
                 THEN "Error handling yjs-update: publish rejected"
                 ELSE "Error handling yjs-awareness: publish rejected",
         c |-> t.c, s |-> t.s, data |-> t.data]}
  /\ UNCHANGED <<destroyed, chatMessage, redisClosed, live, conn, session, cdoc, inbox, rooms, yjsDocs,
                 sessionParticipants, codeSession, participant, bus, ops, sentInRoom>>

\* A connection that hands Redis the pending publishes in any order.
PublishAnyOrder(t) ==
  /\ Drained
  /\ t \in tasks /\ t.pc = "publish"
  /\ t.p \notin redisClosed
  /\ bus' = [q \in Procs |->
               IF q \in live \ redisClosed
               THEN Append(bus[q], BusMessage(t.s, t.kind, t.data, t.c))
               ELSE bus[q]]
  /\ tasks' = IF t.kind = "update" /\ t.hadDoc
              THEN (tasks \ {t}) \cup {[t EXCEPT !.pc = "encode", !.seq = 0]}
              ELSE tasks \ {t}
  /\ UNCHANGED <<destroyed, chatMessage, redisClosed, live, conn, session, cdoc, inbox, rooms, yjsDocs,
                 sessionParticipants, codeSession, participant, ops, sentInRoom, log>>

\* Redis takes the publish of a suspended yjs-update or yjs-awareness
\* handler, in the order the process sent its commands: every subscribed
\* process, the publisher's own included, is sent the message. An awareness
\* handler ends here, and so does an update handler that found no document.
Publish(t) ==
  /\ Drained
  /\ t \in tasks /\ t.pc = "publish"
  /\ t.p \notin redisClosed
  /\ \A u \in tasks : u.pc = "publish" /\ u.p = t.p => t.seq <= u.seq
  /\ bus' = [q \in Procs |->
               IF q \in live \ redisClosed
               THEN Append(bus[q], BusMessage(t.s, t.kind, t.data, t.c))
               ELSE bus[q]]
  /\ tasks' = IF t.kind = "update" /\ t.hadDoc
              THEN (tasks \ {t}) \cup {[t EXCEPT !.pc = "encode", !.seq = 0]}
              ELSE tasks \ {t}
  /\ UNCHANGED <<destroyed, chatMessage, redisClosed, live, conn, session, cdoc, inbox, rooms, yjsDocs,
                 sessionParticipants, codeSession, participant, ops, sentInRoom, log>>

\* A handler that encodes the document for the save and leaves the text
\* snapshot as the row had it.
EncodeForSaveStateOnly(t) ==
  /\ Drained
  /\ t \in tasks /\ t.kind = "update" /\ t.pc = "encode"
  /\ tasks' = (tasks \ {t}) \cup
       {[t EXCEPT !.pc = "write",
                  !.yjsState = EncodeStateAsUpdate(yjsDocs[t.p][t.s]),
                  !.lastSnapshot = codeSession[t.s].lastSnapshot]}
  /\ UNCHANGED <<destroyed, chatMessage, redisClosed, live, conn, session, cdoc, inbox, rooms, yjsDocs,
                 sessionParticipants, codeSession, participant, bus, ops, sentInRoom, log>>

\* The update handler resumes after the publish: it encodes the document as
\* it is now and issues prisma.codeSession.update.
EncodeForSave(t) ==
  /\ Drained
  /\ t \in tasks /\ t.kind = "update" /\ t.pc = "encode"
  /\ tasks' = (tasks \ {t}) \cup
       {[t EXCEPT !.pc = "write",
                  !.yjsState = EncodeStateAsUpdate(yjsDocs[t.p][t.s]),
                  !.lastSnapshot = TextOf(yjsDocs[t.p][t.s])]}
  /\ UNCHANGED <<destroyed, chatMessage, redisClosed, live, conn, session, cdoc, inbox, rooms, yjsDocs,
                 sessionParticipants, codeSession, participant, bus, ops, sentInRoom, log>>

\* The store performs the update of the CodeSession row: both snapshots in
\* one write.
SaveSession(t) ==
  /\ Drained
  /\ t \in tasks /\ t.kind = "update" /\ t.pc = "write"
  /\ codeSession' = IF Has(codeSession, t.s)
                    THEN [codeSession EXCEPT ![t.s] =
                            [yjsState |-> t.yjsState, lastSnapshot |-> t.lastSnapshot]]
                    ELSE codeSession
  /\ tasks' = tasks \ {t}
  /\ UNCHANGED <<destroyed, chatMessage, redisClosed, live, conn, session, cdoc, inbox, rooms, yjsDocs,
                 sessionParticipants, participant, bus, ops, sentInRoom, log>>

\* A handler that answers a rejected write by telling the client.
SaveFailsSurfaced(t) ==
  /\ Drained
  /\ t \in tasks /\ t.kind = "update" /\ t.pc = "write"
  /\ tasks' = tasks \ {t}
  /\ inbox' = EmitTo(inbox, IF t.dead THEN {} ELSE {t.c},
                     Event("unauthorized", <<>>, t.c, "room", t.c, t.s))
  /\ UNCHANGED <<destroyed, chatMessage, redisClosed, live, conn, session, cdoc, rooms, yjsDocs, sessionParticipants,
                 codeSession, participant, bus, ops, sentInRoom, log>>

\* prisma.codeSession.update rejects: the handler's catch logs the error
\* and the handler ends. Nothing issues the write again.
SaveFails(t) ==
  /\ Drained
  /\ t \in tasks /\ t.kind = "update" /\ t.pc = "write"
  /\ tasks' = tasks \ {t}
  /\ log' = log \cup
       {[msg |-> "Error handling yjs-update: write rejected",
         c |-> t.c, s |-> t.s, data |-> t.yjsState]}
  /\ UNCHANGED <<destroyed, chatMessage, redisClosed, live, conn, session, cdoc, inbox, rooms, yjsDocs,
                 sessionParticipants, codeSession, participant, bus, ops, sentInRoom>>

-----------------------------------------------------------------------------
(* Gateway: yjs-awareness *)

\* Awareness payloads a client may send: empty, all-zero, one byte, and an
\* encoded awareness update.
AwarenessPayloads == {<<>>, <<0, 0>>, <<1>>, <<1, 1>>}

\* Checks without the minimum length.
AwarenessAcceptedAnyLength(b) == Len(b) > 0 /\ SomeNonZero(b)

\* The checks of the yjs-awareness handler.
AwarenessAccepted(b) == Len(b) > 0 /\ SomeNonZero(b) /\ Len(b) >= 2

\* The yjs-awareness handler up to its await of redisClient.publish.
YjsAwareness(c, b) ==
  /\ Drained
  /\ ops < MaxOps
  /\ conn[c] # NoConn
  /\ c \notin destroyed
  /\ b \in AwarenessPayloads
  /\ IF AwarenessAccepted(b)
     THEN /\ inbox' = EmitTo(inbox, rooms[conn[c]][session[c]] \ {c},
                             Event("yjs-awareness", b, c, "room", c, session[c]))
          /\ tasks' = tasks \cup
               {Task("awareness", c, conn[c], session[c], "publish", b, FALSE)}
     ELSE UNCHANGED <<inbox, tasks>>
  /\ ops' = ops + 1
  /\ UNCHANGED <<destroyed, chatMessage, redisClosed, live, conn, session, cdoc, rooms, yjsDocs, sessionParticipants,
                 codeSession, participant, bus, sentInRoom, log>>

-----------------------------------------------------------------------------
(* Gateway: request-sync *)

\* A handler that answers a request-sync to the whole room.
SyncReplyToRoom(box, c, p, s) ==
  IF Has(yjsDocs[p], s)
  THEN EmitTo(box, rooms[p][s] \cup {c},
              Event("yjs-update", EncodeStateAsUpdate(yjsDocs[p][s]), c,
                    "sync", "server", s))
  ELSE box

\* The request-sync handler for socket c at process p naming session s: the
\* inboxes after it ran.
SyncReply(box, c, p, s) ==
  IF Has(yjsDocs[p], s)
  THEN EmitTo(box, FullStateTargets(c, yjsDocs[p][s], TRUE),
              Event("yjs-update", EncodeStateAsUpdate(yjsDocs[p][s]), c,
                    "sync", "server", s))
  ELSE box

\* The provider calls requestSync().
RequestSync(c) ==
  /\ Drained
  /\ ops < MaxOps
  /\ conn[c] # NoConn
  /\ c \notin destroyed
  /\ inbox' = SyncReply(inbox, c, conn[c], session[c])
  /\ ops' = ops + 1
  /\ UNCHANGED <<destroyed, chatMessage, redisClosed, live, conn, session, cdoc, rooms, yjsDocs, sessionParticipants,
                 codeSession, participant, bus, tasks, sentInRoom, log>>

-----------------------------------------------------------------------------
(* Gateway: leave-session *)

\* The leave-session handler: socket.leave(sessionId), nothing more.
LeaveSession(c, s) ==
  /\ Drained
  /\ ops < MaxOps
  /\ conn[c] # NoConn
  /\ rooms' = [rooms EXCEPT ![conn[c]][s] = @ \ {c}]
  /\ ops' = ops + 1
  /\ UNCHANGED <<destroyed, chatMessage, redisClosed, live, conn, session, cdoc, inbox, yjsDocs, sessionParticipants,
                 codeSession, participant, bus, tasks, sentInRoom, log>>

-----------------------------------------------------------------------------
(* Gateway: send-message *)

\* The text of a chat message, as bytes.
ChatTexts == {<<104, 105>>}

\* The row prisma.chatMessage.create returns: the store assigns id and
\* createdAt; userId is the handler's fixed 'user-id'.
ChatRow(s, message) ==
  [id |-> Len(chatMessage) + 1, sessionId |-> s, userId |-> "user-id",
   message |-> message, createdAt |-> Len(chatMessage) + 1]

\* messageData: id, timestamp and message of the created row.
MessageData(row) == <<row.id, row.createdAt>> \o row.message

\* A client emits send-message(sessionId, message); the handler starts and
\* suspends at prisma.chatMessage.create.
SendMessage(c, message) ==
  /\ Drained
  /\ ops < MaxOps
  /\ conn[c] # NoConn
  /\ message \in ChatTexts
  /\ tasks' = tasks \cup {Task("chat", c, conn[c], session[c], "create", message, FALSE)}
  /\ ops' = ops + 1
  /\ UNCHANGED <<destroyed, chatMessage, redisClosed, live, conn, session, cdoc, inbox, rooms,
                 yjsDocs, sessionParticipants, codeSession, participant, bus,
                 sentInRoom, log>>

\* The store creates the ChatMessage row and answers with it.
ChatCreate(t) ==
  /\ Drained
  /\ t \in tasks /\ t.kind = "chat" /\ t.pc = "create"
  /\ LET row == ChatRow(t.s, t.data)
     IN /\ chatMessage' = Append(chatMessage, row)
        /\ tasks' = (tasks \ {t}) \cup
             {[t EXCEPT !.pc = "created", !.data = MessageData(row)]}
  /\ UNCHANGED <<destroyed, redisClosed, live, conn, session, cdoc, inbox, rooms, yjsDocs,
                 sessionParticipants, codeSession, participant, bus, ops,
                 sentInRoom, log>>

\* A broadcast that leaves the sender out (socket.to).
ChatTargetsOthers(p, s, c) == rooms[p][s] \ {c}

\* The sockets io.to(sessionId).emit('chat-message') reaches.
ChatTargets(p, s, c) == rooms[p][s]

\* The handler resumes with the created row and broadcasts messageData.
ChatBroadcast(t) ==
  /\ Drained
  /\ t \in tasks /\ t.kind = "chat" /\ t.pc = "created"
  /\ inbox' = EmitTo(inbox, ChatTargets(t.p, t.s, t.c),
                     Event("chat-message", t.data, "user-id", "room", t.c, t.s))
  /\ tasks' = tasks \ {t}
  /\ UNCHANGED <<destroyed, chatMessage, redisClosed, live, conn, session, cdoc, rooms, yjsDocs,
                 sessionParticipants, codeSession, participant, bus, ops,
                 sentInRoom, log>>

\* prisma.chatMessage.create rejects: the handler's catch logs the error.
ChatCreateFails(t) ==
  /\ Drained
  /\ t \in tasks /\ t.kind = "chat" /\ t.pc = "create"
  /\ tasks' = tasks \ {t}
  /\ log' = log \cup
       {[msg |-> "Error sending message", c |-> t.c, s |-> t.s, data |-> t.data]}
  /\ UNCHANGED <<destroyed, chatMessage, redisClosed, live, conn, session, cdoc, inbox, rooms,
                 yjsDocs, sessionParticipants, codeSession, participant, bus, ops,
                 sentInRoom>>

-----------------------------------------------------------------------------
(* Fanout subscription (setupRedisPubSub) *)

\* reconnectStrategy(retries): an Error after the tenth retry, else the
\* delay in milliseconds before the next attempt.
ReconnectStrategy(retries) ==
  IF retries > 10
  THEN [error |-> TRUE, delay |-> 0]
  ELSE [error |-> FALSE, delay |-> Min({retries * 100, 3000})]

\* The Redis server stays out of reach of process p: its clients reconnect
\* until reconnectStrategy returns an Error, which closes them. The error
\* handlers and connectRedis().catch write to the console; messages on the
\* way to the subscriber are lost. The process goes on running.
RedisGivesUp(p) ==
  /\ Drained
  /\ ops < MaxOps
  /\ p \in live \ redisClosed
  /\ \E n \in 0..11 :
       /\ ReconnectStrategy(n).error
       /\ \A k \in 0..(n - 1) : ~ReconnectStrategy(k).error
       /\ log' = log \cup
            {[msg |-> "Redis: Max reconnection attempts reached", c |-> p, s |-> p,
              data |-> <<n>>]}
  /\ redisClosed' = redisClosed \cup {p}
  /\ bus' = [bus EXCEPT ![p] = <<>>]
  /\ ops' = ops + 1
  /\ UNCHANGED <<destroyed, chatMessage, live, conn, session, cdoc, inbox, rooms, yjsDocs,
                 sessionParticipants, codeSession, participant, tasks, sentInRoom>>

\* Messages another publisher may put on a yjs:* channel: text that is not
\* JSON; an object without a type; one of an unknown type; an update
\* without data, with a number for data, and with an array that holds a
\* value that is no byte; an awareness message with a number for data.
ForeignMessages ==
  {BusText("A", FALSE, "absent", "absent", <<>>, "redis"),
   BusText("A", TRUE, "absent", "array", <<1, 11, 0>>, "redis"),
   BusText("A", TRUE, "chat", "array", <<1, 11, 0>>, "redis"),
   BusText("A", TRUE, "update", "absent", <<>>, "redis"),
   BusText("A", TRUE, "update", "number", <<2>>, "redis"),
   BusText("A", TRUE, "update", "array", <<300>>, "redis"),
   BusText("A", TRUE, "awareness", "number", <<2>>, "redis")}

\* Another client of the Redis server publishes on a yjs:* channel.
ForeignPublish(m) ==
  /\ Drained
  /\ ops < MaxOps
  /\ m \in ForeignMessages
  /\ bus' = [q \in Procs |->
               IF q \in live \ redisClosed THEN Append(bus[q], m) ELSE bus[q]]
  /\ ops' = ops + 1
  /\ UNCHANGED <<destroyed, chatMessage, redisClosed, live, conn, session, cdoc, inbox, rooms,
                 yjsDocs, sessionParticipants, codeSession, participant, tasks,
                 sentInRoom, log>>

\* new Uint8Array(data.data): the elements of an array, each reduced to a
\* byte; as many zero bytes as a number says; no bytes for no data.
FanoutBytes(m) ==
  IF m.form = "array" THEN ToUint8Array(m.data)
  ELSE IF m.form = "number" THEN [k \in 1..m.data[1] |-> 0]
  ELSE <<>>

\* What the pSubscribe callback broadcasts for a message, if anything.
FanoutForwards(m) ==
  IF ~m.json THEN FALSE
  ELSE IF m.type = "update"
  THEN Len(FanoutBytes(m)) > 0
  ELSE IF m.type = "awareness"
  THEN /\ m.form = "array"
       /\ Len(m.data) > 0
       /\ SomeNonZero(FanoutBytes(m))
       /\ Len(FanoutBytes(m)) >= 2
  ELSE FALSE

\* A broadcast to every socket of the process (io.emit).
FanoutTargetsEverySocket(p, m) == {c \in Clients : conn[c] = p}

\* The sockets io.to(sessionId).emit reaches at process p.
FanoutTargets(p, m) == rooms[p][m.channel]

\* Process p's subscriber is handed the next message.
RedisMessage(p) ==
  /\ Drained
  /\ p \in live
  /\ bus[p] # <<>>
  /\ LET m == Head(bus[p])
     IN inbox' = IF FanoutForwards(m)
                 THEN EmitTo(inbox, FanoutTargets(p, m),
                             Event(IF m.type = "update" THEN "yjs-update"
                                   ELSE "yjs-awareness",
                                   FanoutBytes(m), m.origin, "fanout",
                                   m.origin, m.channel))
                 ELSE inbox
  /\ bus' = [bus EXCEPT ![p] = Tail(@)]
  /\ UNCHANGED <<destroyed, chatMessage, redisClosed, live, conn, session, cdoc, rooms, yjsDocs, sessionParticipants,
                 codeSession, participant, tasks, ops, sentInRoom, log>>

-----------------------------------------------------------------------------
(* Client: SocketIOProvider *)

\* Whether the provider's yjs-update listener hands the payload to
\* Y.applyUpdate.
ProviderApplies(b) == Len(b) > 0 /\ SomeNonZero(b)

\* A provider whose document listener has no origin check: an update it
\* applied from the network is emitted again, and the gateway's handler
\* takes it up.
ReceiveAndEmitAgain(c) ==
  /\ inbox[c] # <<>>
  /\ LET ev == Head(inbox[c])
         rest == [inbox EXCEPT ![c] = Tail(@)]
     IN IF ev.type = "yjs-update" /\ c \notin destroyed /\ ProviderApplies(ev.data)
        THEN IF Throws(ev.data)
             THEN /\ inbox' = SyncReply(rest, c, conn[c], session[c])
                  /\ cdoc' = cdoc
                  /\ tasks' = tasks
             ELSE /\ cdoc' = [cdoc EXCEPT ![c] = ApplyUpdate(@, ev.data)]
                  /\ inbox' = rest
                  /\ tasks' = tasks \cup
                       {[id |-> 0, kind |-> "update", c |-> c, p |-> conn[c],
                         s |-> session[c], pc |-> "publish", data |-> ev.data,
                         hadDoc |-> FALSE, dead |-> FALSE, found |-> FALSE,
                         seq |-> ops + 1, yjsState |-> <<>>, lastSnapshot |-> <<>>]}
        ELSE /\ inbox' = rest
             /\ cdoc' = cdoc
             /\ tasks' = tasks
  /\ UNCHANGED <<destroyed, chatMessage, redisClosed, live, conn, session, rooms, yjsDocs,
                 sessionParticipants, codeSession, participant, bus, sentInRoom, ops, log>>

\* The client's socket delivers the next event. The provider listens to
\* yjs-update and yjs-awareness; a payload that fails to apply makes it call
\* requestSync().
Receive(c) ==
  /\ inbox[c] # <<>>
  /\ LET ev == Head(inbox[c])
         rest == [inbox EXCEPT ![c] = Tail(@)]
     IN IF ev.type = "yjs-update" /\ c \notin destroyed /\ ProviderApplies(ev.data)
        THEN IF Throws(ev.data)
             THEN /\ inbox' = SyncReply(rest, c, conn[c], session[c])
                  /\ cdoc' = cdoc
             ELSE /\ cdoc' = [cdoc EXCEPT ![c] = ApplyUpdate(@, ev.data)]
                  /\ inbox' = rest
        ELSE /\ inbox' = rest
             /\ cdoc' = cdoc
  /\ UNCHANGED <<destroyed, chatMessage, redisClosed, live, conn, session, rooms, yjsDocs, sessionParticipants,
                 codeSession, participant, bus, tasks, sentInRoom, ops, log>>

\* SocketIOProvider.destroy(): awareness.destroy() ends the awareness
\* updates; socket.off('yjs-update') and socket.off('yjs-awareness') take
\* the listeners of received events off. doc.off('update', () => {}) names
\* a function that was never registered, so the document listener stays,
\* and the socket's connect listener is not touched.
Destroy(c) ==
  /\ Drained
  /\ ops < MaxOps
  /\ c \notin destroyed
  /\ destroyed' = destroyed \cup {c}
  /\ ops' = ops + 1
  /\ UNCHANGED <<chatMessage, redisClosed, live, conn, session, cdoc, inbox, rooms,
                 yjsDocs, sessionParticipants, codeSession, participant, bus, tasks,
                 sentInRoom, log>>

\* The connection drops: Socket.io takes the socket out of its rooms, events
\* in flight to it are lost, and handlers still suspended for it keep a
\* socket that reaches nobody.
Disconnect(c) ==
  /\ Drained
  /\ ops < MaxOps
  /\ conn[c] # NoConn
  /\ rooms' = [rooms EXCEPT ![conn[c]] = [s \in SessionIds |-> @[s] \ {c}]]
  /\ inbox' = [inbox EXCEPT ![c] = <<>>]
  /\ tasks' = {IF t.c = c THEN [t EXCEPT !.dead = TRUE] ELSE t : t \in tasks}
  /\ conn' = [conn EXCEPT ![c] = NoConn]
  /\ ops' = ops + 1
  /\ UNCHANGED <<destroyed, chatMessage, redisClosed, live, session, cdoc, yjsDocs, sessionParticipants, codeSession,
                 participant, bus, sentInRoom, log>>

\* A provider whose connect listener does nothing.
OnConnectIdle(box, c, p) == box

\* The provider's connect listener calls requestSync(): the inboxes after
\* the gateway handled it.
OnConnect(box, c, p) == SyncReply(box, c, p, session[c])

\* The client's socket (re)connects, to any running process.
Connect(c, p) ==
  /\ Drained
  /\ conn[c] = NoConn
  /\ p \in live
  /\ conn' = [conn EXCEPT ![c] = p]
  /\ inbox' = OnConnect(inbox, c, p)
  /\ UNCHANGED <<destroyed, chatMessage, redisClosed, live, session, cdoc, rooms, yjsDocs, sessionParticipants,
                 codeSession, participant, bus, tasks, sentInRoom, ops, log>>

-----------------------------------------------------------------------------
Next ==
  \/ \E c \in Clients, s \in SessionIds : JoinSession(c, s)
  \/ \E t \in tasks : FindUnique(t)
  \/ \E t \in tasks : FindUniqueFails(t)
  \/ \E t \in tasks : JoinResume(t)
  \/ \E t \in tasks : Upsert(t)
  \/ \E t \in tasks : UpsertFails(t)
  \/ \E c \in Clients : LocalEdit(c)
  \/ \E c \in Clients, b \in BadUpdates : BadUpdate(c, b)
  \/ \E t \in tasks : Publish(t)
  \/ \E t \in tasks : PublishFails(t)
  \/ \E t \in tasks : EncodeForSave(t)
  \/ \E t \in tasks : SaveSession(t)
  \/ \E t \in tasks : SaveFails(t)
  \/ \E c \in Clients, s \in Existing : LeaveSession(c, s)
  \/ \E c \in Clients, b \in AwarenessPayloads : YjsAwareness(c, b)
  \/ \E c \in Clients : RequestSync(c)
  \/ \E c \in Clients, message \in ChatTexts : SendMessage(c, message)
  \/ \E t \in tasks : ChatCreate(t)
  \/ \E t \in tasks : ChatBroadcast(t)
  \/ \E t \in tasks : ChatCreateFails(t)
  \/ \E m \in ForeignMessages : ForeignPublish(m)
  \/ \E p \in Procs : RedisGivesUp(p)
  \/ \E p \in Procs : RedisMessage(p)
  \/ \E c \in Clients : Receive(c)
  \/ \E c \in Clients : Destroy(c)
  \/ \E c \in Clients : Disconnect(c)
  \/ \E c \in Clients, p \in Procs : Connect(c, p)

\* Two server processes, from the start.
Spec == Init /\ [][Next]_vars

\* Two server processes, from the state in which both clients have joined.
SpecJoined == InitJoined /\ [][Next]_vars

\* One server process, from the state in which both clients have joined.
SpecSingle == InitSingle /\ [][Next]_vars

\* Two server processes, restarted over what the store kept.
SpecStored == InitStored /\ [][Next]_vars

\* One server process, with every pending step taken in the end: the event
\* loop runs the callbacks that are due, and the store, Redis and the
\* sockets deliver what they were handed.
SpecRestarted == InitRestarted /\ [][Next]_vars
SpecSingleFair == InitSingle /\ [][Next]_vars /\ WF_vars(Next)

-----------------------------------------------------------------------------
(* Properties *)

\* Every message was taken: no handler is suspended, the bus holds nothing
\* and no event is in flight to a client.
Quiet ==
  /\ tasks = {}
  /\ \A p \in Procs : bus[p] = <<>>
  /\ Drained

\* The client whose provider created item i.
Author(i) == CHOOSE c \in Clients : i > ClientBase(c) /\ i < ClientBase(c) + 10

\* The items sent for session s by sockets that were in s's room.
ItemsSentIn(s) == {i \in sentInRoom : session[Author(i)] = s}

\* The sessions whose room at its process the client's socket is in.
JoinedSessions(c) ==
  IF conn[c] = NoConn THEN {}
  ELSE {s \in SessionIds : c \in rooms[conn[c]][s]}

\* The events in flight to client c.
InFlight(c) == Range(inbox[c])

\* C1: echo suppression. No yjs-update that the update handler's room
\* broadcast or the fanout subscription's room broadcast emits goes to the
\* client whose yjs-update event carried it.
C1_NoEchoToOriginator ==
  \A c \in Clients : \A ev \in InFlight(c) :
    ev.type = "yjs-update" /\ ev.via \in {"room", "fanout"} => ev.origin # c

\* C2: cross-process convergence. Once every update is published and
\* delivered and nothing is pending, two processes that both hold a
\* LiveDocument for a session hold the same one.
C2_ProcessesConverge ==
  Quiet =>
    \A s \in Existing : \A p, q \in live :
      Has(yjsDocs[p], s) /\ Has(yjsDocs[q], s) => yjsDocs[p][s] = yjsDocs[q][s]

\* C3: single-process convergence. Once everything is handled and
\* delivered, the LiveDocument of session s and the document of every client
\* joined to s contain every update that was sent for s by a joined client,
\* and every joined client holds all the LiveDocument holds. A client whose
\* provider was destroyed applies nothing any more and is not counted.
C3_SingleProcessConvergence ==
  Quiet =>
    \A s \in Existing : \A c \in rooms["p1"][s] :
      /\ Has(yjsDocs["p1"], s)
      /\ ItemsSentIn(s) \subseteq yjsDocs["p1"][s].items
      /\ c \notin destroyed => ItemsSentIn(s) \subseteq cdoc[c].items
      /\ c \notin destroyed => yjsDocs["p1"][s].items \subseteq cdoc[c].items

\* Both clients are in the room of session A, each has sent an edit from
\* inside the room, everything was delivered and all three documents agree.
C3_Witness ==
  /\ Quiet
  /\ rooms["p1"]["A"] = Clients
  /\ ItemsSentIn("A") = {11, 21}
  /\ \A c \in Clients : cdoc[c].items = {11, 21}
  /\ yjsDocs["p1"]["A"].items = {11, 21}

\* C4: room isolation. A client joined to exactly one session is sent no
\* document or awareness data of another session, by a room broadcast, by
\* the fanout or in reply to its own join-session or request-sync.
C4_RoomIsolation ==
  \A c \in Clients : \A ev \in InFlight(c) :
    /\ ev.type \in {"yjs-update", "yjs-awareness"}
    /\ Cardinality(JoinedSessions(c)) = 1
    => ev.sid \in JoinedSessions(c)

\* C5: merge before relay. Every update the yjs-update handler has broadcast
\* and is about to publish for session s was merged into the LiveDocument
\* this process holds for s.
C5_RelayedWasMerged ==
  \A t \in tasks :
    t.kind = "update" /\ t.pc = "publish" =>
      /\ Has(yjsDocs[t.p], t.s)
      /\ ~Throws(t.data)
      /\ DecodedItems(t.data) \subseteq yjsDocs[t.p][t.s].items

C7_ZeroPayloadDropped ==
  \A t \in tasks : t.kind = "update" => Len(t.data) > 0 /\ SomeNonZero(t.data)

\* The yjs-update events in flight to client c that its provider will apply.
Applicable(c) ==
  {ev \in InFlight(c) :
     ev.type = "yjs-update" /\ ProviderApplies(ev.data) /\ ~Throws(ev.data)}

\* In the state after the step, the LiveDocument of session s at process p,
\* if it holds anything, is in flight to client c as one yjs-update that the
\* provider applies and that decodes to all of its items and to its text.
FullStateInFlight(c, p, s) ==
  Has(yjsDocs'[p], s) /\ yjsDocs'[p][s].items # {} =>
    \E ev \in Range(inbox'[c]) :
      /\ ev.type = "yjs-update" /\ ev.sid = s
      /\ ProviderApplies(ev.data) /\ ~Throws(ev.data)
      /\ yjsDocs'[p][s].items \subseteq DecodedItems(ev.data)
      /\ TextOf(ApplyUpdate(EmptyDoc, ev.data)) = TextOf(yjsDocs'[p][s])

\* C8: full state on join and on request-sync. The state the gateway sends
\* to a socket that joins session s, or that requests a sync for s, decodes
\* to every update merged into the process's LiveDocument for s by then (for
\* a join that creates the LiveDocument: to what it was loaded with).
C8_FullStateComplete ==
  [][/\ \A c \in Clients :
          RequestSync(c) => FullStateInFlight(c, conn[c], session[c])
     /\ \A t \in tasks :
          JoinResume(t) /\ t.found /\ ~t.dead => FullStateInFlight(t.c, t.p, t.s)]_vars

\* Client c2 is being sent, in reply to its request-sync, a state that
\* decodes to the one character client c1 inserted.
C8_Witness ==
  \E ev \in InFlight("c2") :
    /\ ev.type = "yjs-update" /\ ev.via = "sync"
    /\ 11 \in cdoc["c1"].items
    /\ TextOf(ApplyUpdate(EmptyDoc, ev.data)) = <<CharOf(11)>>

\* What client c holds or is about to apply.
Reach(c) ==
  cdoc[c].items \cup UNION {DecodedItems(ev.data) : ev \in Applicable(c)}

C10_SessionNotFound ==
  /\ [](\A s \in SessionIds \ Existing :
          /\ \A p \in Procs : /\ rooms[p][s] = {}
                               /\ ~Has(yjsDocs[p], s)
                               /\ ~Has(sessionParticipants[p], s)
          /\ \A r \in participant : r.sessionId # s
          /\ \A c \in Clients : \A ev \in InFlight(c) :
               ev.type = "user-joined" => ev.sid # s)
  /\ [][\A t \in tasks :
          JoinResume(t) /\ ~t.found =>
            /\ inbox' = [inbox EXCEPT ![t.c] =
                           IF t.dead THEN @
                           ELSE Append(@, Event("session-not-found", <<>>, t.c,
                                                "join", t.c, t.s))]
            /\ tasks' = tasks \ {t}
            /\ UNCHANGED <<rooms, yjsDocs, sessionParticipants, participant,
                           codeSession, bus, conn, cdoc>>]_vars

\* A client that is in no room is being sent session-not-found, and no
\* LiveDocument and no Participant row exists.
C10_Witness ==
  \E c \in Clients :
    /\ \E ev \in InFlight(c) : ev.type = "session-not-found"
    /\ JoinedSessions(c) = {}
    /\ conn[c] # NoConn
    /\ yjsDocs[conn[c]] = <<>>
    /\ participant = {}

DecodedText(yjsState) == TextOf(ApplyUpdate(EmptyDoc, ToUint8Array(yjsState)))

\* C12: every durable write stores the two snapshots of one LiveDocument
\* state. Whenever a CodeSession row changes, its binary snapshot decodes
\* and its text snapshot is the text the binary snapshot decodes to, and
\* every write still to be performed carries such a pair.
C12_SnapshotsAgree ==
  /\ [](\A t \in tasks :
          t.kind = "update" /\ t.pc = "write" =>
            ~Throws(t.yjsState) /\ t.lastSnapshot = DecodedText(t.yjsState))
  /\ [][\A s \in Existing :
          codeSession'[s] # codeSession[s] =>
            /\ ~Throws(ToUint8Array(codeSession'[s].yjsState))
            /\ codeSession'[s].lastSnapshot = DecodedText(codeSession'[s].yjsState)]_vars

\* Session A's row holds both clients' inserts, written by one handler,
\* while the other handler's write is still to come.
C12_Witness ==
  /\ codeSession["A"] = [yjsState |-> <<2, 11, 21, 0>>, lastSnapshot |-> <<11, 21>>]
  /\ \E t \in tasks : t.kind = "update" /\ t.pc = "write" /\ t.s = "A"

\* The updates a stored binary snapshot holds (none when there is no
\* snapshot or it does not decode).
StoredItems(row) ==
  IF Len(row.yjsState) = 0 \/ Throws(ToUint8Array(row.yjsState)) THEN {}
  ELSE DecodedItems(ToUint8Array(row.yjsState))

\* C13: saved content is never lost by a later write. Every completed write
\* of a CodeSession row leaves a binary snapshot that holds every update
\* the snapshot it overwrites held.
C13_SavedNeverLost ==
  [][\A s \in Existing : StoredItems(codeSession[s]) \subseteq StoredItems(codeSession'[s])]_vars

\* The handler invocation t is over after the step.
Ended(t) == ~\E u \in tasks' : u.kind = t.kind /\ u.c = t.c /\ u.id = t.id

\* The yjs-update handler invocations that start in the step.
Started ==
  {t \in tasks' :
     /\ t.kind = "update" /\ t.pc = "publish"
     /\ ~\E u \in tasks : u.kind = t.kind /\ u.c = t.c /\ u.id = t.id}

\* C14: persistence never blocks the real-time path. (1) The step in which
\* an update is accepted merges it and puts it in flight to every other
\* member of the room, before anything is saved. (2) The publish is taken
\* with the write not yet issued. (3) A handler with a write pending has
\* merged its update, and the step that ends it, the write done or
\* rejected, changes neither a LiveDocument nor anything sent to a client,
\* a room or the bus. (4) While a write is pending, clients' edits and the
\* sync requests of providers that were not destroyed are handled.
C14_PersistenceOffRealtimePath ==
  /\ [][\A t \in Started :
          /\ t.hadDoc => DecodedItems(t.data) \subseteq yjsDocs'[t.p][t.s].items
          /\ \A d \in rooms[t.p][t.s] \ {t.c} :
               \E ev \in Range(inbox'[d]) :
                 ev.type = "yjs-update" /\ ev.data = t.data /\ ev.via = "room"
          /\ UNCHANGED codeSession]_vars
  /\ [][\A t \in tasks :
          t.kind = "update" /\ t.pc = "publish" /\ t.hadDoc /\ Publish(t) =>
            /\ \A q \in live : bus'[q] = Append(bus[q], BusMessage(t.s, "update", t.data, t.c))
            /\ UNCHANGED codeSession]_vars
  /\ [](\A t \in tasks :
          t.kind = "update" /\ t.pc = "write" =>
            DecodedItems(t.data) \subseteq yjsDocs[t.p][t.s].items)
  /\ [][\A t \in tasks :
          t.kind = "update" /\ t.pc = "write" /\ Ended(t) =>
            UNCHANGED <<yjsDocs, inbox, cdoc, rooms, conn, bus, sessionParticipants>>]_vars
  /\ [](\A c \in Clients :
          /\ \E t \in tasks : t.pc = "write"
          /\ Drained /\ ops < MaxOps /\ conn[c] # NoConn
          => /\ ENABLED LocalEdit(c)
             /\ c \notin destroyed => ENABLED RequestSync(c))

\* A write was rejected; the update it belonged to is in the LiveDocument
\* and in the other client's document, and nothing is pending.
C14_Witness ==
  /\ \E e \in log : e.msg = "Error handling yjs-update: write rejected" /\ e.c = "c1"
  /\ 11 \in yjsDocs["p1"]["A"].items
  /\ 11 \in cdoc["c2"].items
  /\ codeSession["A"].yjsState = <<>>
  /\ Quiet

\* C15: a rejected write is retried. Once nothing is pending any more, the
\* row of a session holds every update of each LiveDocument state whose
\* write was rejected.
C15_FailedWriteRetried ==
  Quiet =>
    \A e \in log :
      e.msg = "Error handling yjs-update: write rejected" =>
        DecodedItems(e.data) \subseteq StoredItems(codeSession[e.s])

\* The yjs-awareness handler invocations that start in the step.
StartedAwareness ==
  {t \in tasks' :
     /\ t.kind = "awareness" /\ t.pc = "publish"
     /\ ~\E u \in tasks : u.kind = t.kind /\ u.c = t.c /\ u.id = t.id}

\* C16: a failing fanout does not touch the local relay. (1) The step that
\* accepts an update or an awareness message merges it (an update, into the
\* LiveDocument the process holds) and puts it in flight to every other
\* member of the local room, with the bus untouched, whatever became of
\* earlier publishes. (2) The step in which a publish is rejected changes no
\* LiveDocument, inbox, room, connection or row. (3) After a rejected
\* publish, and while a publish is pending, clients' edits are handled.
C16_FanoutFailureLocalRelay ==
  /\ [][\A t \in Started \cup StartedAwareness :
          /\ t.kind = "update" /\ t.hadDoc =>
               DecodedItems(t.data) \subseteq yjsDocs'[t.p][t.s].items
          /\ \A d \in rooms[t.p][t.s] \ {t.c} :
               \E ev \in Range(inbox'[d]) :
                 /\ ev.type = (IF t.kind = "update" THEN "yjs-update" ELSE "yjs-awareness")
                 /\ ev.data = t.data /\ ev.via = "room" /\ ev.origin = t.c
          /\ UNCHANGED bus]_vars
  /\ [][\A t \in tasks :
          t.pc = "publish" /\ Ended(t) /\ UNCHANGED bus =>
            UNCHANGED <<yjsDocs, inbox, cdoc, rooms, conn, codeSession,
                        sessionParticipants>>]_vars
  /\ [](\A c \in Clients :
          /\ \/ \E t \in tasks : t.pc = "publish"
             \/ \E e \in log : e.msg = "Error handling yjs-update: publish rejected"
          /\ Drained /\ ops < MaxOps /\ conn[c] # NoConn
          => ENABLED LocalEdit(c))

\* The publish of c1's first update was rejected, and both of c1's updates
\* are in the LiveDocument and in c2's document, with nothing pending.
C16_Witness ==
  /\ \E e \in log : /\ e.msg = "Error handling yjs-update: publish rejected"
                     /\ e.data = <<1, 11, 0>>
  /\ {11, 12} \subseteq yjsDocs["p1"]["A"].items
  /\ {11, 12} \subseteq cdoc["c2"].items
  /\ Quiet

\* The writes of session s's row that process p has issued and that the
\* store has not answered yet.
PendingWrites(p, s) ==
  {t \in tasks : t.kind = "update" /\ t.pc = "write" /\ t.p = p /\ t.s = s}

\* C17: durable writes are debounced per session. The gateway has no clock,
\* so the steps of a run may all fall into one debounce interval: updates
\* that follow one another before the store has answered are coalesced, and
\* a process has at most one write of a session's row outstanding.
C17_WritesDebounced ==
  \A p \in Procs : \A s \in Existing : Cardinality(PendingWrites(p, s)) <= 1

\* At least two bytes, one of them not zero.
ValidAwareness(b) == Len(b) >= 2 /\ \E k \in DOMAIN b : b[k] # 0

\* C18: awareness validation. On the client-event path a yjs-awareness
\* payload that is at least two bytes long with a byte that is not zero is
\* put in flight to every other member of the local room and its publish is
\* issued; any other payload changes no inbox, no handler and no bus. On
\* the fanout path the subscription callback forwards a message exactly
\* when its bytes pass the same test, to the members of the local room.
C18_AwarenessValidation ==
  /\ [](\A b \in AwarenessPayloads :
          /\ AwarenessAccepted(b) <=> ValidAwareness(b)
          /\ FanoutForwards(BusMessage("A", "awareness", b, "c1"))
               <=> ValidAwareness(ToUint8Array(b)))
  /\ [][\A c \in Clients : \A b \in AwarenessPayloads :
          YjsAwareness(c, b) =>
            IF ValidAwareness(b)
            THEN /\ \A d \in rooms[conn[c]][session[c]] \ {c} :
                      \E ev \in Range(inbox'[d]) :
                        /\ ev.type = "yjs-awareness" /\ ev.data = b
                        /\ ev.via = "room" /\ ev.origin = c
                 /\ c \notin rooms[conn[c]][session[c]] => inbox'[c] = inbox[c]
                 /\ \E t \in StartedAwareness :
                      t.c = c /\ t.data = b /\ t.s = session[c]
            ELSE UNCHANGED <<inbox, tasks, bus>>]_vars
  /\ [][\A p \in Procs :
          RedisMessage(p) /\ Head(bus[p]).type = "awareness" =>
            LET m == Head(bus[p])
            IN IF ValidAwareness(ToUint8Array(m.data))
               THEN \A d \in rooms[p][m.channel] :
                      \E ev \in Range(inbox'[d]) :
                        /\ ev.type = "yjs-awareness" /\ ev.via = "fanout"
                        /\ ev.data = ToUint8Array(m.data)
               ELSE UNCHANGED inbox]_vars

\* Client c2 is being sent, by the fanout, the awareness message client c1
\* sent.
C18_Witness ==
  \E ev \in InFlight("c2") :
    /\ ev.type = "yjs-awareness" /\ ev.via = "fanout"
    /\ ev.origin = "c1" /\ ev.data = <<1, 1>>

\* C19: presence is cleared on disconnect. In the step in which a socket
\* drops out of a session's room, by disconnecting or by leave-session, the
\* process's participant set for the session loses the user and every
\* socket that stays in the room is sent a user-left for it.
C19_PresenceCleared ==
  [][\A c \in Clients : \A p \in Procs : \A s \in Existing :
       c \in rooms[p][s] /\ c \notin rooms'[p][s] =>
         /\ Has(sessionParticipants'[p], s) => c \notin sessionParticipants'[p][s]
         /\ \A d \in rooms'[p][s] :
              \E ev \in Range(inbox'[d]) : ev.type = "user-left" /\ ev.user = c]_vars

\* C20: participant activity tracking. There is at most one Participant row
\* for a (sessionId, userId); the upsert that completes a join leaves the
\* user's row with leftAt null; and once nothing is pending, the row of a
\* user whose socket is in the session's room at no process has leftAt set.
C20_ParticipantActivity ==
  /\ [](\A r1, r2 \in participant :
          r1.sessionId = r2.sessionId /\ r1.userId = r2.userId => r1 = r2)
  /\ [][\A t \in tasks :
          Upsert(t) =>
            [sessionId |-> t.s, userId |-> t.c, leftAt |-> "null"] \in participant']_vars
  /\ [](Quiet =>
          \A r \in participant :
            (\A p \in Procs : r.userId \notin rooms[p][r.sessionId]) => r.leftAt # "null")

\* The chat-message events that the step puts in flight to client d.
NewChatEvents(d) ==
  {ev \in Range(inbox'[d]) : ev.type = "chat-message"}
    \ {ev \in Range(inbox[d]) : ev.type = "chat-message"}

\* C21: chat relay. (1) Every chat-message in flight carries the id, the
\* timestamp and the text of a row the store holds, so the row was created
\* before the broadcast. (2) A chat-message is put in flight only by the
\* handler that resumes with the created row, and that step sends it to
\* every socket in the session's room at that moment, the sender included
\* when it is in the room, and to no other socket. (3) When the create is
\* rejected, the handler ends with no row created and nothing sent.
C21_ChatRelay ==
  /\ [](\A d \in Clients : \A ev \in InFlight(d) :
          ev.type = "chat-message" =>
            \E k \in DOMAIN chatMessage :
              /\ chatMessage[k].id = ev.data[1]
              /\ chatMessage[k].createdAt = ev.data[2]
              /\ chatMessage[k].sessionId = ev.sid
              /\ MessageData(chatMessage[k]) = ev.data)
  /\ [][(\E d \in Clients : NewChatEvents(d) # {}) =>
          \E t \in tasks :
            /\ t.kind = "chat" /\ t.pc = "created" /\ Ended(t)
            /\ \E k \in DOMAIN chatMessage : MessageData(chatMessage[k]) = t.data
            /\ \A d \in Clients :
                 IF d \in rooms[t.p][t.s]
                 THEN /\ Len(inbox'[d]) = Len(inbox[d]) + 1
                      /\ inbox'[d][Len(inbox'[d])].type = "chat-message"
                      /\ inbox'[d][Len(inbox'[d])].data = t.data
                 ELSE inbox'[d] = inbox[d]]_vars
  /\ [][\A t \in tasks :
          t.kind = "chat" /\ t.pc = "create" /\ Ended(t) /\ UNCHANGED chatMessage =>
            /\ UNCHANGED inbox
            /\ \E e \in log' : e.msg = "Error sending message" /\ e.c = t.c]_vars

\* The store holds the row of the message c1 sent, and the chat-message
\* carrying the row's id and timestamp is in flight to c1 and to c2.
C21_Witness ==
  /\ Len(chatMessage) = 1
  /\ \A d \in Clients :
       \E ev \in InFlight(d) :
         /\ ev.type = "chat-message" /\ ev.origin = "c1"
         /\ ev.data = MessageData(chatMessage[1])

\* C22: request-sync only sends the requester the full state. The step of
\* a request-sync leaves every LiveDocument, room, participant set, durable
\* row, the bus, the suspended handlers and every client's document as they
\* were and sends nothing to another client; the requester is sent nothing
\* or one yjs-update whose payload is the encoding of the LiveDocument the
\* process holds for the session, which decodes to that document; and the
\* next request-sync finds the same document to encode.
C22_RequestSyncFrame ==
  [][\A c \in Clients :
       RequestSync(c) =>
         LET p == conn[c]
             s == session[c]
         IN /\ UNCHANGED <<yjsDocs, rooms, sessionParticipants, codeSession,
                           participant, chatMessage, bus, tasks, cdoc, conn, log>>
            /\ \A d \in Clients \ {c} : inbox'[d] = inbox[d]
            /\ \/ inbox'[c] = inbox[c]
               \/ /\ Has(yjsDocs[p], s)
                  /\ Len(inbox'[c]) = Len(inbox[c]) + 1
                  /\ LET ev == inbox'[c][Len(inbox'[c])]
                     IN /\ ev.type = "yjs-update"
                        /\ ev.data = EncodeStateAsUpdate(yjsDocs[p][s])
                        /\ ~Throws(ev.data)
                        /\ ApplyUpdate(EmptyDoc, ev.data) = yjsDocs[p][s]
                        /\ ev.data = EncodeStateAsUpdate(yjsDocs'[p][s])]_vars

\* Client c1 is being sent, in reply to its request-sync, the full state of
\* session A, which holds its edit; client c2, in the same room, is sent
\* nothing.
C22_Witness ==
  /\ \E ev \in InFlight("c1") :
       /\ ev.type = "yjs-update" /\ ev.via = "sync"
       /\ ev.data = <<1, 11, 0>>
       /\ ApplyUpdate(EmptyDoc, ev.data) = yjsDocs["p1"]["A"]
  /\ "c2" \in rooms["p1"]["A"]
  /\ inbox["c2"] = <<>>

\* Whether the payload is the update of one inserted item, and the item.
IsItemUpdate(b) == Len(b) = 3 /\ b[1] = 1 /\ b[3] = 0
ItemOf(b) == b[2]

\* The places in client d's inbox of the events that carry item i.
PlacesOf(d, i) ==
  {k \in DOMAIN inbox[d] :
     /\ inbox[d][k].type = "yjs-update"
     /\ ~Throws(inbox[d][k].data)
     /\ i \in DecodedItems(inbox[d][k].data)}

\* C23: FIFO per sender within one process. For items j and i that one
\* client sent in this order from inside the session's room: (1) the
\* LiveDocument never holds i without j, and the update of a suspended
\* handler is merged already; (2) no other client holds i without j, and an
\* event carrying i is in flight to a client only if the client holds j or
\* an event carrying j is at the same or an earlier place in its inbox;
\* (3) on the bus a message carrying i never comes before one carrying j,
\* and no message carrying i is on the bus while the publish of j is still
\* to be taken. In (2) a client whose provider was destroyed, which applies
\* nothing it is sent, is not counted.
C23_FifoPerSender ==
  /\ \A i, j \in sentInRoom :
       Author(i) = Author(j) /\ j < i =>
         LET c == Author(i)
             s == session[c]
         IN /\ \A p \in Procs :
                 Has(yjsDocs[p], s) /\ i \in yjsDocs[p][s].items
                   => j \in yjsDocs[p][s].items
            /\ \A d \in Clients \ ({c} \cup destroyed) :
                 /\ i \in cdoc[d].items => j \in cdoc[d].items
                 /\ \A k \in PlacesOf(d, i) :
                      \/ j \in cdoc[d].items
                      \/ \E l \in PlacesOf(d, j) : l <= k
  /\ \A t \in tasks :
       t.kind = "update" /\ t.hadDoc => DecodedItems(t.data) \subseteq yjsDocs[t.p][t.s].items
  /\ \A q \in Procs : \A k, l \in DOMAIN bus[q] :
       /\ bus[q][k].type = "update" /\ bus[q][l].type = "update"
       /\ IsItemUpdate(bus[q][k].data) /\ IsItemUpdate(bus[q][l].data)
       /\ bus[q][k].origin = bus[q][l].origin
       /\ ItemOf(bus[q][k].data) < ItemOf(bus[q][l].data)
       => k < l
  /\ \A q \in Procs : \A k \in DOMAIN bus[q] : \A t \in tasks :
       /\ t.kind = "update" /\ t.pc = "publish" /\ IsItemUpdate(t.data)
       /\ bus[q][k].type = "update" /\ IsItemUpdate(bus[q][k].data)
       /\ bus[q][k].origin = t.c
       => ItemOf(bus[q][k].data) < ItemOf(t.data)

\* Client c1 sent two updates for session A: both are merged, client c2
\* holds both, both are on the bus in the order sent, and the write of
\* the first handler was issued while the second handler's was not.
C23_Witness ==
  /\ {11, 12} \subseteq yjsDocs["p1"]["A"].items
  /\ {11, 12} \subseteq cdoc["c2"].items
  /\ Len(bus["p1"]) = 2
  /\ bus["p1"][1].data = <<1, 11, 0>> /\ bus["p1"][2].data = <<1, 12, 0>>
  /\ \E t \in tasks : t.pc = "write" /\ t.data = <<1, 11, 0>>
  /\ \E t \in tasks : t.pc = "encode" /\ t.data = <<1, 12, 0>>

\* The join-session handlers that resume with an existing session in the
\* step and go on to the upsert.
JoinedNow ==
  {t \in tasks : t.kind = "join" /\ t.pc = "found" /\ t.found
                 /\ \E u \in tasks' : u.kind = "join" /\ u.c = t.c /\ u.id = t.id
                                      /\ u.pc = "upsert"}

\* C24: one LiveDocument per session per process. (1) A document that is
\* registered for a session stays registered and is only ever merged into:
\* no step takes it out of the map or puts a document in its place that
\* lacks something it held. (2) A join handler that resumes when a document
\* is registered leaves the map as it is, whatever row it read before, and
\* one that resumes when none is registered registers the document loaded
\* from its row. (3) The full state a joiner is sent is the encoding of the
\* registered document.
C24_OneLiveDocument ==
  /\ [][\A p \in Procs : \A s \in DOMAIN yjsDocs[p] :
          /\ Has(yjsDocs'[p], s)
          /\ yjsDocs[p][s].items \subseteq yjsDocs'[p][s].items
          /\ yjsDocs[p][s].deleted \subseteq yjsDocs'[p][s].deleted]_vars
  /\ [][\A t \in JoinedNow :
          /\ Has(yjsDocs'[t.p], t.s)
          /\ IF Has(yjsDocs[t.p], t.s)
             THEN UNCHANGED yjsDocs
             ELSE yjsDocs'[t.p][t.s] = LoadDoc(DocClientID(t.p), t.yjsState, t.lastSnapshot)
          /\ \A ev \in Range(inbox'[t.c]) \ Range(inbox[t.c]) :
               ev.type = "yjs-update" /\ ev.via = "join" =>
                 ev.data = EncodeStateAsUpdate(yjsDocs'[t.p][t.s])]_vars

\* A join handler of client c2 read the row of session A when it was empty
\* and resumed after c1's update was merged: the document still holds the
\* update and c2 is being sent it as the full state.
C24_Witness ==
  \E t \in tasks :
    /\ t.kind = "join" /\ t.pc = "upsert" /\ t.c = "c2" /\ t.s = "A"
    /\ t.yjsState = <<>>
    /\ yjsDocs["p1"]["A"].items = {11}
    /\ \E ev \in InFlight("c2") :
         ev.type = "yjs-update" /\ ev.via = "join" /\ ev.data = <<1, 11, 0>>

\* The yjs-update events carrying a full state that the step puts in flight.
NewFullStates ==
  UNION {{ev \in Range(inbox'[c]) \ Range(inbox[c]) :
            ev.type = "yjs-update" /\ ev.via \in {"join", "sync"}} : c \in Clients}

\* The handlers whose encoding for the durable write is made in the step.
EncodedNow ==
  {u \in tasks' : /\ u.kind = "update" /\ u.pc = "write"
                  /\ \E t \in tasks : t.kind = u.kind /\ t.c = u.c /\ t.id = u.id
                                      /\ t.pc = "encode"}

\* C25: merges into one LiveDocument are serialized. (1) A step that
\* changes a registered document is the start of exactly one yjs-update
\* handler, and the document after it is the document before it with that
\* handler's whole update merged; no encoding of any document, for a full
\* state or for a write, is made in that step. (2) A step that encodes a
\* document for a durable write or for a full state leaves every registered
\* document unchanged, and what it encodes is the whole document. (3) No
\* handler is suspended with its merge unfinished.
C25_MergesSerialized ==
  /\ [][\A p \in Procs : \A s \in DOMAIN yjsDocs[p] :
          yjsDocs'[p][s] # yjsDocs[p][s] =>
            /\ Cardinality(Started) = 1
            /\ \A t \in Started :
                 /\ t.p = p /\ t.s = s /\ t.hadDoc /\ ~Throws(t.data)
                 /\ yjsDocs'[p][s].items = yjsDocs[p][s].items \cup DecodedItems(t.data)
                 /\ yjsDocs'[p][s].deleted =
                      yjsDocs[p][s].deleted \cup DecodedDeleted(t.data)
            /\ EncodedNow = {} /\ NewFullStates = {}]_vars
  /\ [][\A u \in EncodedNow :
          /\ \A p \in Procs : \A s \in DOMAIN yjsDocs[p] : yjsDocs'[p][s] = yjsDocs[p][s]
          /\ u.yjsState = EncodeStateAsUpdate(yjsDocs[u.p][u.s])
          /\ ~Throws(u.yjsState)
          /\ ApplyUpdate(EmptyDoc, u.yjsState) = yjsDocs[u.p][u.s]]_vars
  /\ [][\A ev \in NewFullStates :
          /\ \A p \in Procs : \A s \in DOMAIN yjsDocs[p] : yjsDocs'[p][s] = yjsDocs[p][s]
          /\ \E p \in Procs :
               /\ Has(yjsDocs'[p], ev.sid)
               /\ ev.data = EncodeStateAsUpdate(yjsDocs'[p][ev.sid])]_vars
  /\ [](\A t \in tasks :
          t.kind = "update" /\ t.hadDoc /\ ~Throws(t.data) =>
            /\ DecodedItems(t.data) \subseteq yjsDocs[t.p][t.s].items
            /\ DecodedDeleted(t.data) \subseteq yjsDocs[t.p][t.s].deleted)

\* Both clients sent an update for session A: the handler of c1's is
\* suspended at its write with an encoding made before c2's update arrived,
\* the handler of c2's is suspended at its publish, and the document holds
\* both updates.
C25_Witness ==
  /\ yjsDocs["p1"]["A"].items = {11, 21}
  /\ \E t \in tasks : /\ t.kind = "update" /\ t.c = "c1" /\ t.pc = "write"
                      /\ t.yjsState = <<1, 11, 0>>
  /\ \E t \in tasks : t.kind = "update" /\ t.c = "c2" /\ t.pc = "publish"

\* C26: handling a bus message only broadcasts to the local room. The step
\* in which process p's subscription callback handles a message of channel
\* s takes that message off p's queue and changes nothing else but the
\* inboxes of the sockets in p's room s, each of which gets nothing or one
\* event of session s: no LiveDocument, durable row, room, participant set
\* or suspended handler changes, and nothing is added to any process's
\* queue.
C26_FanoutLocalRoomOnly ==
  [][\A p \in Procs :
       RedisMessage(p) =>
         LET m == Head(bus[p])
         IN /\ UNCHANGED <<yjsDocs, codeSession, participant, chatMessage, rooms,
                           sessionParticipants, tasks, cdoc, conn>>
            /\ bus' = [bus EXCEPT ![p] = Tail(@)]
            /\ \A d \in Clients :
                 IF d \in rooms[p][m.channel]
                 THEN \/ inbox'[d] = inbox[d]
                      \/ /\ Len(inbox'[d]) = Len(inbox[d]) + 1
                         /\ inbox'[d][Len(inbox'[d])].via = "fanout"
                         /\ inbox'[d][Len(inbox'[d])].sid = m.channel
                         /\ inbox'[d][Len(inbox'[d])].data = FanoutBytes(m)
                 ELSE inbox'[d] = inbox[d]]_vars

\* Client c1's update for session A came back from the bus and is in flight
\* to c1, the one socket in the room of A; client c2, in the room of B at
\* the same process, is sent nothing, and the document of A holds the
\* update once.
C26_Witness ==
  /\ rooms["p1"]["A"] = {"c1"} /\ rooms["p1"]["B"] = {"c2"}
  /\ \E ev \in InFlight("c1") :
       ev.via = "fanout" /\ ev.sid = "A" /\ ev.data = <<1, 11, 0>>
  /\ inbox["c2"] = <<>>
  /\ bus["p1"] = <<>>
  /\ yjsDocs["p1"]["A"].items = {11}

\* A bus message that is not valid JSON, has a missing or unknown type, or
\* whose data is missing or is not an array of bytes.
Malformed(m) ==
  \/ ~m.json
  \/ m.type \notin {"update", "awareness"}
  \/ m.form # "array"
  \/ \E k \in DOMAIN m.data : m.data[k] \notin 0..255

\* C27: fanout malformed-payload containment. The step in which the
\* subscription callback handles a malformed message takes it off the
\* queue and puts nothing in flight to any client.
C27_MalformedFanoutContained ==
  [][\A p \in Procs :
       RedisMessage(p) /\ Malformed(Head(bus[p])) =>
         /\ UNCHANGED inbox
         /\ bus' = [bus EXCEPT ![p] = Tail(@)]]_vars

\* C28: bounded reconnect, then fatal. reconnectStrategy answers the
\* retries up to the tenth with a delay that never decreases and never
\* exceeds 3000 ms and every later one with an Error; and a process whose
\* Redis clients have given up handles no client's update any more.
C28_ReconnectBoundedThenFatal ==
  /\ [](\A n \in 0..20 :
          /\ ReconnectStrategy(n).error <=> n > 10
          /\ ReconnectStrategy(n).delay <= 3000
          /\ n < 10 => ReconnectStrategy(n).delay <= ReconnectStrategy(n + 1).delay)
  /\ [][\A c \in Clients : LocalEdit(c) => conn[c] \notin redisClosed]_vars

\* C29: join fails closed. A join-session handler that ends without having
\* learnt that the session exists (at its lookup, or with the lookup's
\* answer that there is no such session) sends its client, if still
\* connected, 'session-not-found', and leaves the rooms as they were.
C29_JoinFailsClosed ==
  [][\A t \in tasks :
       /\ t.kind = "join" /\ Ended(t)
       /\ t.pc = "find" \/ (t.pc = "found" /\ ~t.found)
       => /\ UNCHANGED rooms
          /\ ~t.dead =>
               \E ev \in Range(inbox'[t.c]) \ Range(inbox[t.c]) :
                 ev.type = "session-not-found"]_vars

\* The isPublic and ownerId fields of the CodeSession rows, set when the row
\* is created: session A is public, session B is private and owned by the
\* user of client c2. A client's userId is its name.
IsPublic == [s \in Existing |-> s = "A"]
OwnerId == [s \in Existing |-> IF s = "A" THEN "c1" ELSE "c2"]

\* GET /api/sessions/[sessionId] for the signed-in user: the status, and
\* the document state the response carries.
GetSession(s, user) ==
  IF ~Has(codeSession, s)
  THEN [status |-> 404, yjsState |-> <<>>, lastSnapshot |-> <<>>]
  ELSE IF ~IsPublic[s] /\ OwnerId[s] # user
  THEN [status |-> 403, yjsState |-> <<>>, lastSnapshot |-> <<>>]
  ELSE [status |-> 200, yjsState |-> codeSession[s].yjsState,
        lastSnapshot |-> codeSession[s].lastSnapshot]

\* C30: private sessions check ownership on every path. For a session that
\* is not public and a client that is not its owner, the GET route answers
\* 403 without the document state, and the gateway puts no yjs-update
\* carrying the session's document in flight to the client.
C30_PrivateSessionOwnership ==
  \A s \in Existing : \A c \in Clients :
    ~IsPublic[s] /\ OwnerId[s] # c =>
      /\ GetSession(s, c).status = 403
      /\ GetSession(s, c).yjsState = <<>>
      /\ \A ev \in InFlight(c) :
           ev.type = "yjs-update" => ev.sid # s

\* The user-joined events for user u among the events the step puts in
\* flight to client d.
NewUserJoined(d, u) ==
  {k \in DOMAIN inbox'[d] :
     /\ k > Len(inbox[d])
     /\ inbox'[d][k].type = "user-joined" /\ inbox'[d][k].user = u}

\* C31: user-joined. In the step in which a join-session handler finds the
\* session and joins its socket, every other socket in the session's room
\* is sent exactly one user-joined carrying the joining user, the joining
\* socket is sent none, and no socket outside the room is sent anything.
C31_UserJoinedBroadcast ==
  [][\A t \in JoinedNow :
       /\ \A d \in rooms[t.p][t.s] \ {t.c} :
            /\ Cardinality(NewUserJoined(d, t.c)) = 1
            /\ Len(inbox'[d]) = Len(inbox[d]) + 1
       /\ NewUserJoined(t.c, t.c) = {}
       /\ \A d \in Clients \ (rooms[t.p][t.s] \cup {t.c}) : inbox'[d] = inbox[d]]_vars

\* Client c1 has joined session B, whose room client c2 was in: a
\* user-joined for c1 is in flight to c2 and none to c1.
C31_Witness ==
  /\ rooms["p1"]["B"] = {"c1", "c2"}
  /\ \E ev \in InFlight("c2") : ev.type = "user-joined" /\ ev.user = "c1"
  /\ \A ev \in InFlight("c1") : ev.type # "user-joined"
  /\ \E t \in tasks : t.kind = "join" /\ t.c = "c1" /\ t.s = "B" /\ t.pc = "upsert"

\* The yjs-update, yjs-awareness and send-message handler invocations that
\* pass their checks in the step and suspend at their first await.
Accepted ==
  {t \in tasks' :
     /\ t.kind \in {"update", "awareness", "chat"}
     /\ t.pc \in {"publish", "create"}
     /\ ~\E u \in tasks : u.kind = t.kind /\ u.c = t.c /\ u.id = t.id}

\* C32: session events are accepted only from joined clients. A yjs-update,
\* yjs-awareness or send-message that the gateway takes up (merges,
\* broadcasts, hands to the bus or the store) comes from a socket that is
\* in the room of the session it names.
C32_OnlyJoinedClientsAccepted ==
  [][\A t \in Accepted : t.c \in rooms[t.p][t.s]]_vars

\* The items that the yjs-update events in flight to client d carry.
ItemsInFlight(d) ==
  UNION {DecodedItems(ev.data) :
           ev \in {e \in InFlight(d) : e.type = "yjs-update" /\ ~Throws(e.data)}}

\* C33: joining is atomic with respect to updates. Every item merged into
\* the LiveDocument a process holds for a session is held by, or in flight
\* to, every socket in the process's room of the session: what was merged
\* before the socket joined came with the full state, what was merged
\* after it is broadcast to it. A socket whose provider was destroyed takes
\* its events and applies none; it is not counted.
C33_JoinAtomic ==
  \A p \in Procs : \A s \in DOMAIN yjsDocs[p] : \A d \in rooms[p][s] \ destroyed :
    yjsDocs[p][s].items \subseteq cdoc[d].items \cup ItemsInFlight(d)

\* Client c1's join of session B read the row while it was empty; client
\* c2's update was merged before the handler resumed, and the full state c1
\* is being sent holds it.
C33_Witness ==
  /\ "c1" \in rooms["p1"]["B"]
  /\ \E t \in tasks : /\ t.kind = "join" /\ t.c = "c1" /\ t.s = "B"
                      /\ t.pc = "upsert" /\ t.yjsState = <<>>
  /\ 21 \in yjsDocs["p1"]["B"].items
  /\ 21 \notin cdoc["c1"].items
  /\ \E ev \in InFlight("c1") : ev.via = "join" /\ ev.data = <<1, 21, 0>>

\* C34: 'unauthorized' leaves the client not joined. A join-session handler
\* that ends by emitting 'unauthorized' either raised at its lookup, before
\* it did anything, or leaves its socket outside the session's room and its
\* user outside the session's participant set.
C34_UnauthorizedNotJoined ==
  [][\A t \in tasks :
       /\ t.kind = "join" /\ Ended(t)
       /\ \E k \in DOMAIN inbox'[t.c] :
            k > Len(inbox[t.c]) /\ inbox'[t.c][k].type = "unauthorized"
       => \/ t.pc = "find"
          \/ /\ t.c \notin rooms'[t.p][t.s]
             /\ Has(sessionParticipants'[t.p], t.s) =>
                  t.c \notin sessionParticipants'[t.p][t.s]]_vars

\* C35: a failed publish does not keep an accepted update from becoming
\* durable. A yjs-update handler that merged its update and leaves its
\* await of the publish, whether the publish was taken or rejected, goes on
\* to encode the document for the durable write.
C35_WriteIssuedAfterFailedPublish ==
  [][\A t \in tasks :
       /\ t.kind = "update" /\ t.pc = "publish" /\ t.hadDoc
       /\ ~\E u \in tasks' : u.kind = t.kind /\ u.c = t.c /\ u.id = t.id
                             /\ u.pc = "publish"
       => \E u \in tasks' : u.kind = t.kind /\ u.c = t.c /\ u.id = t.id
                            /\ u.pc = "encode"]_vars

\* C36: an update applied from the network is not sent back. (1) The step
\* in which a provider takes an event changes no suspended handler, no bus
\* queue, no LiveDocument, no row and no other client's inbox; its own
\* inbox gets something only when the payload failed to apply and the
\* provider asked for the full state. (2) Every run comes to rest: in the
\* end no handler is suspended, the bus is empty and nothing is in flight.
C36_NoReEmit ==
  /\ [][\A c \in Clients :
          Receive(c) =>
            /\ UNCHANGED <<tasks, bus, yjsDocs, codeSession, rooms>>
            /\ \A d \in Clients \ {c} : inbox'[d] = inbox[d]
            /\ \/ inbox'[c] = Tail(inbox[c])
               \/ /\ Head(inbox[c]).type = "yjs-update"
                  /\ Throws(Head(inbox[c]).data)
                  /\ Len(inbox'[c]) = Len(inbox[c])]_vars
  /\ <>[]Quiet

\* Client c1's own edit came back from the bus and is in flight to c1, which
\* holds it already; client c2 is in the room as well.
C36_Witness ==
  /\ rooms["p1"]["A"] = Clients
  /\ 11 \in cdoc["c1"].items
  /\ \E ev \in InFlight("c1") :
       ev.via = "fanout" /\ ev.origin = "c1" /\ ev.data = <<1, 11, 0>>

\* C37: after destroy() the provider is inert: a received yjs-update is no
\* longer applied to the local document, a later change of the local
\* document starts no yjs-update at the gateway, and a reconnect of the
\* socket sends no request-sync (the gateway replies with nothing).
C37_DestroyedProviderInert ==
  [][\A c \in destroyed :
        /\ (inbox[c] # <<>> /\ inbox'[c] = Tail(inbox[c])) => cdoc'[c] = cdoc[c]
        /\ \A t \in Accepted : ~(t.c = c /\ t.kind = "update")
        /\ (conn[c] = NoConn /\ conn'[c] # NoConn) => inbox'[c] = inbox[c]]_vars

\* The socket's reply to request-sync, emitted by hand, after a reconnect or
\* after a received update failed to apply, is decided in this step.
SyncAsked(c) ==
  \/ RequestSync(c)
  \/ conn[c] = NoConn /\ conn'[c] # NoConn
  \/ /\ inbox[c] # <<>>
     /\ inbox'[c] # inbox[c]
     /\ inbox[c][1].type = "yjs-update"
     /\ c \notin destroyed
     /\ ProviderApplies(inbox[c][1].data)
     /\ Throws(inbox[c][1].data)

\* The full state of doc is the one event the step adds to c's inbox.
FullStateSent(old, new, doc, via) ==
  /\ Len(new) = Len(old) + 1
  /\ new[Len(new)].type = "yjs-update"
  /\ new[Len(new)].via = via
  /\ new[Len(new)].data = EncodeStateAsUpdate(doc)

\* C38: the full state is withheld only from an empty document. A join
\* handler that resumes on a connected socket, and a request-sync at a
\* process that holds the session's document, send the encoding of the
\* whole document whenever it has text or any struct, also when every
\* struct in it is deleted; when they send nothing the document is the
\* empty one.
C38_FullStateUnlessEmpty ==
  /\ [][\A t \in JoinedNow :
          ~t.dead =>
            LET doc == yjsDocs'[t.p][t.s]
            IN IF doc = EmptyDoc
               THEN inbox'[t.c] = inbox[t.c]
               ELSE FullStateSent(inbox[t.c], inbox'[t.c], doc, "join")]_vars
  /\ [][\A c \in Clients :
          SyncAsked(c) /\ conn'[c] # NoConn /\ Has(yjsDocs[conn'[c]], session[c]) =>
            LET doc == yjsDocs[conn'[c]][session[c]]
                old == IF conn[c] = NoConn \/ RequestSync(c)
                       THEN inbox[c] ELSE Tail(inbox[c])
            IN IF doc = EmptyDoc
               THEN inbox'[c] = old
               ELSE FullStateSent(old, inbox'[c], doc, "sync")]_vars

\* The row of session A was saved with its one insert deleted again: the
\* document has a struct and no text. Client c1 has joined and been sent the
\* full state, and is now being sent it again in reply to its request-sync.
C38_Witness ==
  /\ Has(yjsDocs["p1"], "A")
  /\ yjsDocs["p1"]["A"] = [items |-> {11}, deleted |-> {11}]
  /\ TextOf(yjsDocs["p1"]["A"]) = <<>>
  /\ 11 \in cdoc["c1"].deleted
  /\ \E ev \in InFlight("c1") : ev.via = "sync" /\ ev.data = <<1, 11, 1, 11>>

\* C39: materializing the same record again gives a compatible document.
\* When a process's LiveDocument of session A is the document loaded from
\* A's row, and client c1 holds the document an earlier run loaded from
\* that row with the full state of the present one merged into it, c1's
\* text is the server's text: nothing is there twice.
C39_RematerializedCompatible ==
  \A p \in Procs :
    LET row == codeSession["A"]
        before == LoadDoc(EarlierClientID, row.yjsState, row.lastSnapshot)
    IN /\ Has(yjsDocs[p], "A")
       /\ yjsDocs[p]["A"] = LoadDoc(DocClientID(p), row.yjsState, row.lastSnapshot)
       /\ "c1" \in rooms[p]["A"]
       /\ inbox["c1"] = <<>>
       /\ cdoc["c1"] = ApplyUpdate(before, EncodeStateAsUpdate(yjsDocs[p]["A"]))
       => TextOf(cdoc["c1"]) = TextOf(yjsDocs[p]["A"])

=============================================================================
